---- MODULE Spec2Model ----
(***************************************************************************)
(* A model of the gmail-purge analysis engine: EmailAnalyzer (the sender,  *)
(* subject and size analyses, the result cache, the busy flag of           *)
(* generateReport), the subject normalisation of EmailAnalyzer and         *)
(* EmailParser, and the callers and suppliers of the engine: GmailAuth,    *)
(* GmailAPI and the Dashboard.  Strings are sequences of one-character     *)
(* strings, so that the regular-expression replacements are computed       *)
(* character by character.                                                 *)
(***************************************************************************)
EXTENDS Integers, Sequences, FiniteSets, TLC

VARIABLES
    analysisCache,       \* EmailAnalyzer.analysisCache: kind -> cached result
    analysisInProgress,  \* EmailAnalyzer.analysisInProgress
    pending,             \* generateReport invocations suspended at their await
    last,                \* the call that settled last, with what it returned
    input,               \* what a run is given: emails, raw messages, a mailbox, ids
    subj,                \* the subject string handed to the normalisers (SpecNorm)
    norm,                \* what the two normalisers returned for subj
    gmailAuth,           \* the GmailAuth instance, with its calls under way
    gmailAPI,            \* the call of GmailAPI under way, with its position
    dashboard            \* the Dashboard, with its startAnalysis under way

vars == <<analysisCache, analysisInProgress, pending, last, input, subj, norm,
          gmailAuth, gmailAPI, dashboard>>

\* no call has settled yet
NoCall == [op |-> "none"]

\* ------------------------------------------------------------------ strings

UpperChars == <<"A","B","C","D","E","F","G","H","I","J","K","L","M",
                "N","O","P","Q","R","S","T","U","V","W","X","Y","Z">>
LowerChars == <<"a","b","c","d","e","f","g","h","i","j","k","l","m",
                "n","o","p","q","r","s","t","u","v","w","x","y","z">>

\* the characters \s matches, among those the model's strings are made of
Whitespace == {" ", "\t"}

LowerChar(c) ==
    IF \E i \in 1..26 : UpperChars[i] = c
    THEN LowerChars[CHOOSE i \in 1..26 : UpperChars[i] = c]
    ELSE c

\* String.prototype.toLowerCase
ToLowerCase(s) == [i \in 1..Len(s) |-> LowerChar(s[i])]

\* the index of the first character at or after i that is not whitespace
RECURSIVE SkipSpaces(_, _)
SkipSpaces(s, i) ==
    IF i <= Len(s) /\ s[i] \in Whitespace THEN SkipSpaces(s, i + 1) ELSE i

\* String.prototype.trim
RECURSIVE TrimEnd(_)
TrimEnd(s) ==
    IF Len(s) > 0 /\ s[Len(s)] \in Whitespace
    THEN TrimEnd(SubSeq(s, 1, Len(s) - 1))
    ELSE s

Trim(s) == TrimEnd(SubSeq(s, SkipSpaces(s, 1), Len(s)))

\* s.replace(/\s+/g, ' '): every maximal run of whitespace becomes one space
RECURSIVE CollapseWhitespace(_)
CollapseWhitespace(s) ==
    IF s = <<>> THEN <<>>
    ELSE IF s[1] \in Whitespace
         THEN <<" ">> \o CollapseWhitespace(SubSeq(s, SkipSpaces(s, 1), Len(s)))
         ELSE <<s[1]>> \o CollapseWhitespace(Tail(s))

\* s starts with p, letter case ignored (the i flag); p is lower case
StartsWithCI(s, p) ==
    /\ Len(s) >= Len(p)
    /\ \A i \in 1..Len(p) : LowerChar(s[i]) = p[i]

\* the length of the match of (re:|fwd?:|fw:) at the start of s, 0 if none
PrefixLen(s) ==
    IF StartsWithCI(s, <<"r","e",":">>) THEN 3
    ELSE IF StartsWithCI(s, <<"f","w","d",":">>) THEN 4
    ELSE IF StartsWithCI(s, <<"f","w",":">>) THEN 3
    ELSE 0

\* s.replace(/^(re:|fwd?:|fw:)\s*/gi, ''): the pattern is anchored at the start
\* of the string (no m flag), so the g flag finds at most one match
ReplacePrefix(s) ==
    IF PrefixLen(s) = 0
    THEN s
    ELSE SubSeq(s, SkipSpaces(s, PrefixLen(s) + 1), Len(s))

NoSubjectUpper == <<"(","N","o"," ","S","u","b","j","e","c","t",")">>
NoSubjectLower == <<"(","n","o"," ","s","u","b","j","e","c","t",")">>

\* EmailAnalyzer.normalizeSubject
normalizeSubject(subject) ==
    IF subject = <<>>
    THEN NoSubjectUpper
    ELSE ToLowerCase(Trim(CollapseWhitespace(ReplacePrefix(subject))))

\* EmailParser._normalizeSubject
EmailParser_normalizeSubject(subject) ==
    IF subject = <<>>
    THEN NoSubjectLower
    ELSE LET r == Trim(CollapseWhitespace(ReplacePrefix(ToLowerCase(subject))))
         IN  IF r = <<>> THEN NoSubjectLower ELSE r

\* ------------------------------------------------- subjects of the model

MaxSubjectLen == 3

SubjectChars == {"R", "e", ":", " ", "s", "F", "w"}

RECURSIVE StringsUpTo(_, _)
StringsUpTo(chars, n) ==
    IF n = 0 THEN {<<>>}
    ELSE LET shorter == StringsUpTo(chars, n - 1)
         IN  shorter \cup {Append(s, c) : s \in {t \in shorter : Len(t) = n - 1},
                                          c \in chars}

RePrefix == <<"R","e",":"," ">>
SaleSubject == <<"S","a","l","e","!">>
ReReSale == RePrefix \o RePrefix \o SaleSubject
FwdReSale == <<"F","W","D",":">> \o RePrefix \o SaleSubject

BoundedSubjects == StringsUpTo(SubjectChars, MaxSubjectLen)

Subjects ==
    BoundedSubjects
        \cup {RePrefix \o s : s \in BoundedSubjects}
        \cup {SaleSubject, RePrefix \o SaleSubject, ReReSale, FwdReSale,
              <<" ", "\t", "S", " ", " ", "a">>}

KB == 1024

\* ------------------------------------------------------------------ emails
\* A canonical Email as EmailParser.parseMessage builds it, with the fields the
\* analyses read.  It has a sizeEstimate and no field named size.

AtX(local) == <<local, "@", "x", ".", "c", "o", "m">>

UnknownSenderKey ==
    <<"u","n","k","n","o","w","n","@","u","n","k","n","o","w","n",".","c","o","m">>
UnknownSenderText == <<"U","n","k","n","o","w","n"," ","S","e","n","d","e","r">>
UnknownName == <<"U","n","k","n","o","w","n">>

HiSubject == <<"H","i">>

Email(id, from, subject, bytes) ==
    [id |-> id,
     sizeEstimate |-> bytes,
     sender |-> IF from = <<>> THEN UnknownSenderText ELSE from,
     senderEmail |-> from,
     senderName |-> IF from = <<>> THEN <<>> ELSE <<from[1]>>,
     subject |-> IF subject = <<>> THEN NoSubjectUpper ELSE subject]

RECURSIVE SeqsUpTo(_, _)
SeqsUpTo(S, n) ==
    IF n = 0 THEN {<<>>}
    ELSE LET shorter == SeqsUpTo(S, n - 1)
         IN  shorter \cup {Append(q, x) : q \in {t \in shorter : Len(t) = n - 1},
                                          x \in S}

Min(a, b) == IF a <= b THEN a ELSE b
Max(a, b) == IF a >= b THEN a ELSE b

\* A JavaScript number: an integer, or NaN
NaN == [nan |-> TRUE]
Num(v) == [nan |-> FALSE, value |-> v]

\* the two halves of a sequence of two or more elements; the operators that go
\* through a sequence go through its first half and then through its second,
\* which keeps their evaluation shallow on a long sequence
FirstHalf(q) == SubSeq(q, 1, Len(q) \div 2)
SecondHalf(q) == SubSeq(q, Len(q) \div 2 + 1, Len(q))

\* TLC puts the evaluation of an argument off until its value is needed; a
\* test on the value has it evaluated at once.  A forEach tests what its first
\* half has built before it begins with the second.
Evaluated(x) == x = x

RECURSIVE SumSizeEstimate(_)
\* the sum of sizeEstimate over a sequence of emails
SumSizeEstimate(q) ==
    IF q = <<>> THEN 0
    ELSE IF Len(q) = 1 THEN q[1].sizeEstimate
    ELSE SumSizeEstimate(FirstHalf(q)) + SumSizeEstimate(SecondHalf(q))

RECURSIVE SumCount(_)
\* the sum of count over a sequence of groups or buckets
SumCount(q) ==
    IF q = <<>> THEN 0
    ELSE IF Len(q) = 1 THEN q[1].count
    ELSE SumCount(FirstHalf(q)) + SumCount(SecondHalf(q))

RECURSIVE SumTotalSize(_)
\* the sum of totalSize over a sequence of groups or buckets
SumTotalSize(q) ==
    IF q = <<>> THEN 0
    ELSE IF Len(q) = 1 THEN q[1].totalSize
    ELSE SumTotalSize(FirstHalf(q)) + SumTotalSize(SecondHalf(q))

\* JavaScript's x.size || 0 and x.sizeEstimate || 0: a missing property reads
\* as undefined, which is falsy
SizeOrZero(email) == IF "size" \in DOMAIN email THEN email.size ELSE 0
SizeEstimateOrZero(email) ==
    IF "sizeEstimate" \in DOMAIN email THEN email.sizeEstimate ELSE 0

\* email.senderEmail || email.sender || 'unknown@unknown.com'
SenderKeyOf(email) ==
    IF email.senderEmail # <<>> THEN email.senderEmail
    ELSE IF email.sender # <<>> THEN email.sender
    ELSE UnknownSenderKey

\* the index of the entry of the Map (a sequence in insertion order) whose key
\* is k, 0 when the Map has none
IndexOfKey(groups, k) ==
    IF \E i \in 1..Len(groups) : groups[i].id = k
    THEN CHOOSE i \in 1..Len(groups) : groups[i].id = k
    ELSE 0

\* a mutant of CountRank: of two elements of one count the later goes first
CountRankUnstable(q, i) ==
    1 + Cardinality({j \in 1..Len(q) :
                        \/ q[j].count > q[i].count
                        \/ q[j].count = q[i].count /\ j > i})

\* the place q[i] has after q.sort((a, b) => b.count - a.count): behind the
\* elements of a larger count and, the sort being stable, behind those of its
\* own count that were before it
CountRank(q, i) ==
    1 + Cardinality({j \in 1..Len(q) :
                        \/ q[j].count > q[i].count
                        \/ q[j].count = q[i].count /\ j < i})

\* Array.prototype.sort((a, b) => b.count - a.count)
SortByCount(q) ==
    [p \in 1..Len(q) |-> q[CHOOSE i \in 1..Len(q) : CountRank(q, i) = p]]

\* Array.prototype.slice(0, n)
Slice(q, n) == SubSeq(q, 1, Min(n, Len(q)))

\* -------------------------------------------------- analyzeBySender, computed

TopSendersLimit == 20

\* the entry senderMap.set creates on the first sight of a sender key
NewSenderGroup(key, email) ==
    [id |-> key,
     name |-> IF email.senderName # <<>> THEN email.senderName
              ELSE IF email.sender # <<>> THEN email.sender
              ELSE UnknownName,
     email |-> IF email.senderEmail # <<>> THEN email.senderEmail ELSE key,
     emails |-> <<>>,
     totalSize |-> 0,
     subjectVariations |-> {}]

\* the email is added to its sender's entry: pushed, its size added to the
\* total, its subject to the set of subject variations
PushToSender(group, email) ==
    [group EXCEPT
        !.emails = Append(@, email),
        !.totalSize = @ + SizeOrZero(email),
        !.subjectVariations =
            IF email.subject # <<>>
            THEN @ \cup {Trim(ToLowerCase(email.subject))}
            ELSE @]

\* a mutant of AddToSender: an email without a sender address is dropped
AddToSenderDropUnknown(groups, email) ==
    LET key == SenderKeyOf(email)
        at == IndexOfKey(groups, key)
        all == IF at = 0 THEN Append(groups, NewSenderGroup(key, email)) ELSE groups
        i == IF at = 0 THEN Len(all) ELSE at
    IN  IF email.senderEmail = <<>> THEN groups
        ELSE [all EXCEPT ![i] = PushToSender(@, email)]

\* one turn of the forEach of analyzeBySender: the email joins the entry of its
\* sender key, which is created on first sight
AddToSender(groups, email) ==
    LET key == SenderKeyOf(email)
        at == IndexOfKey(groups, key)
        all == IF at = 0 THEN Append(groups, NewSenderGroup(key, email)) ELSE groups
        i == IF at = 0 THEN Len(all) ELSE at
    IN  [all EXCEPT ![i] = PushToSender(@, email)]

\* ------------------------------------------------ calculateSenderEfficiency

MB == 1024 * 1024
EfficiencyScale == 10000

\* sender.avgSize and sender.subjectVariations: a property the object does not
\* have reads as undefined, and arithmetic on undefined gives NaN
AvgSizeOf(sender) ==
    IF "avgSize" \in DOMAIN sender THEN Num(sender.avgSize) ELSE NaN
SubjectVariationsOf(sender) ==
    IF "subjectVariations" \in DOMAIN sender
    THEN Num(sender.subjectVariations) ELSE NaN

\* Math.round of score / EfficiencyScale: to the nearest integer, halves up
RoundScaled(score) == (2 * score + EfficiencyScale) \div (2 * EfficiencyScale)

\* EmailAnalyzer.calculateSenderEfficiency.  The three scores are kept in
\* thousandths, the weighted sum in ten-thousandths; Math.max and Math.min
\* return NaN when an argument is NaN, and so do the sums and Math.round.
calculateSenderEfficiency(sender) ==
    IF Len(sender.emails) = 0 THEN Num(0)
    ELSE LET avgSize == AvgSizeOf(sender)
             variations == SubjectVariationsOf(sender)
         IN  IF avgSize.nan \/ variations.nan THEN NaN
             ELSE
             LET emailCountScore == Max(0, 100000 - Len(sender.emails) * 100)
                 \* avgSizeMB * 20, in thousandths: avgSize * 20000 / MB
                 sizePenalty ==
                     ((avgSize.value \div KB) * 625) \div 32
                         + ((avgSize.value % KB) * 625) \div (32 * KB)
                 sizeScore == Max(0, 100000 - sizePenalty)
                 variationScore == Min(100000, variations.value * 5000)
             IN  Num(RoundScaled(4 * emailCountScore + 3 * sizeScore
                                    + 3 * variationScore))

\* the value of senderMap that analyzeBySender hands to
\* calculateSenderEfficiency: the statistics (subjectVariations) are kept in
\* senderStats, and avgSize is a property of the object being built only
SenderEntry(group) ==
    [name |-> group.name,
     email |-> group.email,
     emails |-> group.emails,
     totalSize |-> group.totalSize]

\* emails.forEach on senderMap: the emails are added one after the other
RECURSIVE SenderMapFrom(_, _)
SenderMapFrom(groups, emails) ==
    IF emails = <<>> THEN groups
    ELSE IF Len(emails) = 1 THEN AddToSender(groups, emails[1])
    ELSE LET first == SenderMapFrom(groups, FirstHalf(emails))
         IN  IF Evaluated(first)
             THEN SenderMapFrom(first, SecondHalf(emails))
             ELSE first

SenderMap(emails) == SenderMapFrom(<<>>, emails)

\* the result analyzeBySender computes when it does not answer from the cache
SenderAnalysisOf(emails) ==
    LET map == SenderMap(emails)
        senders == SortByCount(
            [i \in 1..Len(map) |->
                [id |-> map[i].id,
                 name |-> map[i].name,
                 email |-> map[i].email,
                 emails |-> map[i].emails,
                 totalSize |-> map[i].totalSize,
                 count |-> Len(map[i].emails),
                 subjectVariations |-> Cardinality(map[i].subjectVariations),
                 efficiency |-> calculateSenderEfficiency(SenderEntry(map[i]))]])
    IN  [totalEmails |-> Len(emails),
         senders |-> senders,
         topSenders |-> Slice(senders, TopSendersLimit),
         statistics |-> [totalSenders |-> Len(senders)]]

EmptySenderAnalysis == [totalEmails |-> 0, senders |-> <<>>, topSenders |-> <<>>]

\* ------------------------------------------------- analyzeBySubject, computed

SubjectLimit == 100

\* email.subject || '(No Subject)'
SubjectOrDefault(email) ==
    IF email.subject # <<>> THEN email.subject ELSE NoSubjectUpper

\* the entry subjectMap.set creates on the first sight of a normalized subject
NewSubjectGroup(key, email) ==
    [id |-> key,
     subject |-> SubjectOrDefault(email),
     emails |-> <<>>,
     senders |-> {},
     totalSize |-> 0]

\* the email is added to its subject's entry
PushToSubject(group, email) ==
    [group EXCEPT
        !.emails = Append(@, email),
        !.senders = @ \cup {SenderKeyOf(email)},
        !.totalSize = @ + SizeEstimateOrZero(email)]

\* one turn of the forEach of analyzeBySubject
AddToSubject(groups, email) ==
    LET key == normalizeSubject(SubjectOrDefault(email))
        at == IndexOfKey(groups, key)
        all == IF at = 0 THEN Append(groups, NewSubjectGroup(key, email)) ELSE groups
        i == IF at = 0 THEN Len(all) ELSE at
    IN  [all EXCEPT ![i] = PushToSubject(@, email)]

\* emails.forEach on subjectMap: the emails are added one after the other
RECURSIVE SubjectMapFrom(_, _)
SubjectMapFrom(groups, emails) ==
    IF emails = <<>> THEN groups
    ELSE IF Len(emails) = 1 THEN AddToSubject(groups, emails[1])
    ELSE LET first == SubjectMapFrom(groups, FirstHalf(emails))
         IN  IF Evaluated(first)
             THEN SubjectMapFrom(first, SecondHalf(emails))
             ELSE first

SubjectMap(emails) == SubjectMapFrom(<<>>, emails)

\* the result analyzeBySubject computes when it does not answer from the cache;
\* the subject patterns, which no other part of the result depends on, are
\* left out
SubjectAnalysisOf(emails) ==
    LET map == SubjectMap(emails)
        subjects == SortByCount(
            [i \in 1..Len(map) |->
                [id |-> map[i].id,
                 subject |-> map[i].subject,
                 emails |-> map[i].emails,
                 totalSize |-> map[i].totalSize,
                 count |-> Len(map[i].emails),
                 senderCount |-> Cardinality(map[i].senders)]])
    IN  [totalEmails |-> Len(emails),
         subjects |-> Slice(subjects, SubjectLimit),
         statistics |-> [uniqueSubjects |-> Len(subjects)]]

EmptySubjectAnalysis == [totalEmails |-> 0, subjects |-> <<>>, patterns |-> <<>>]

\* ------------------------------------------------- analyzeSizeDistribution

LargeSendersLimit == 10

\* sizeRanges; the last range has max: Infinity
sizeRanges ==
    << [min |-> 0,             max |-> 50 * KB,      bounded |-> TRUE],
       [min |-> 50 * KB,       max |-> 500 * KB,     bounded |-> TRUE],
       [min |-> 500 * KB,      max |-> 5 * KB * KB,  bounded |-> TRUE],
       [min |-> 5 * KB * KB,   max |-> 0,            bounded |-> FALSE] >>

\* a mutant of InRange: the lower end of a range is excluded
InRangeOpen(size, r) ==
    size > r.min /\ (~r.bounded \/ size < r.max)

\* a mutant of InRange: the upper end of a range is included
InRangeClosed(size, r) ==
    size >= r.min /\ (~r.bounded \/ size <= r.max)

\* size >= r.min && size < r.max
InRange(size, r) ==
    size >= r.min /\ (~r.bounded \/ size < r.max)

\* distribution.find(...): the index of the first range holding the size, 0
\* when find returns undefined
FindRange(size) ==
    IF \E i \in 1..Len(sizeRanges) : InRange(size, sizeRanges[i])
    THEN CHOOSE i \in 1..Len(sizeRanges) :
            /\ InRange(size, sizeRanges[i])
            /\ \A j \in 1..(i - 1) : ~InRange(size, sizeRanges[j])
    ELSE 0

\* one turn of the forEach of analyzeSizeDistribution on the buckets
AddToDistribution(distribution, email) ==
    LET size == SizeEstimateOrZero(email)
        i == FindRange(size)
    IN  IF i = 0 THEN distribution
        ELSE [distribution EXCEPT
                ![i].count = @ + 1,
                ![i].totalSize = @ + size,
                ![i].emails = Append(@, email)]

\* emails.forEach on the buckets: the emails are added one after the other
RECURSIVE DistributionFrom(_, _)
DistributionFrom(distribution, emails) ==
    IF emails = <<>> THEN distribution
    ELSE IF Len(emails) = 1 THEN AddToDistribution(distribution, emails[1])
    ELSE LET first == DistributionFrom(distribution, FirstHalf(emails))
         IN  IF Evaluated(first)
             THEN DistributionFrom(first, SecondHalf(emails))
             ELSE first

\* the buckets, empty at first, after the forEach
Distribution(emails) ==
    DistributionFrom([i \in 1..Len(sizeRanges) |->
                        [min |-> sizeRanges[i].min, count |-> 0,
                         totalSize |-> 0, emails |-> <<>>]],
                     emails)

\* one turn of the forEach of analyzeSizeDistribution on senderSizeMap
AddToSenderSize(sizes, email) ==
    LET key == SenderKeyOf(email)
        at == IndexOfKey(sizes, key)
        fresh == [id |-> key,
                  sender |-> IF email.senderName # <<>> THEN email.senderName
                             ELSE IF email.sender # <<>> THEN email.sender
                             ELSE UnknownName,
                  totalSize |-> 0,
                  count |-> 0]
        all == IF at = 0 THEN Append(sizes, fresh) ELSE sizes
        i == IF at = 0 THEN Len(all) ELSE at
    IN  [all EXCEPT ![i].totalSize = @ + SizeEstimateOrZero(email),
                    ![i].count = @ + 1]

\* emails.forEach on senderSizeMap: the emails are added one after the other
RECURSIVE SenderSizeMapFrom(_, _)
SenderSizeMapFrom(sizes, emails) ==
    IF emails = <<>> THEN sizes
    ELSE IF Len(emails) = 1 THEN AddToSenderSize(sizes, emails[1])
    ELSE LET first == SenderSizeMapFrom(sizes, FirstHalf(emails))
         IN  IF Evaluated(first)
             THEN SenderSizeMapFrom(first, SecondHalf(emails))
             ELSE first

SenderSizeMap(emails) == SenderSizeMapFrom(<<>>, emails)

\* the place q[i] has after q.sort((a, b) => b.totalSize - a.totalSize), which
\* is stable
TotalSizeRank(q, i) ==
    1 + Cardinality({j \in 1..Len(q) :
                        \/ q[j].totalSize > q[i].totalSize
                        \/ q[j].totalSize = q[i].totalSize /\ j < i})

\* Array.prototype.sort((a, b) => b.totalSize - a.totalSize)
SortByTotalSize(q) ==
    [p \in 1..Len(q) |-> q[CHOOSE i \in 1..Len(q) : TotalSizeRank(q, i) = p]]

RECURSIVE TotalSize(_)
\* totalSize += size, over the forEach of analyzeSizeDistribution
TotalSize(emails) ==
    IF emails = <<>> THEN 0
    ELSE IF Len(emails) = 1 THEN SizeEstimateOrZero(emails[1])
    ELSE TotalSize(FirstHalf(emails)) + TotalSize(SecondHalf(emails))

\* totalSize > 0 ? (range.totalSize / totalSize) * 100 : 0, kept as the
\* fraction that is multiplied by 100
Percentage(part, whole) ==
    IF whole > 0 THEN [part |-> part, of |-> whole] ELSE [part |-> 0, of |-> 1]

\* EmailAnalyzer.analyzeSizeDistribution
analyzeSizeDistribution(emails) ==
    IF emails = <<>>
    THEN [totalSize |-> 0, distribution |-> <<>>, largeSenders |-> <<>>]
    ELSE [totalSize |-> TotalSize(emails),
          distribution |->
            LET distribution == Distribution(emails)
            IN  [i \in 1..Len(distribution) |->
                    [min |-> distribution[i].min,
                     count |-> distribution[i].count,
                     totalSize |-> distribution[i].totalSize,
                     emails |-> distribution[i].emails,
                     percentage |-> Percentage(distribution[i].totalSize,
                                               TotalSize(emails))]],
          largeSenders |-> Slice(SortByTotalSize(SenderSizeMap(emails)),
                                 LargeSendersLimit)]

\* ------------------------------------------------------------ the cache

SenderCacheKey == "sender_analysis"
SubjectCacheKey == "subject_analysis"

\* new Map()
EmptyCache == [k \in {} |-> TRUE]

\* Map.prototype.set
CacheSet(cache, key, value) ==
    [k \in DOMAIN cache \cup {key} |-> IF k = key THEN value ELSE cache[k]]

\* a mutant of analyzeBySender: the cache is written and never consulted
analyzeBySenderUncached(cache, emails) ==
    IF emails = <<>>
    THEN [result |-> EmptySenderAnalysis, cache |-> cache, fromCache |-> FALSE]
    ELSE [result |-> SenderAnalysisOf(emails),
          cache |-> CacheSet(cache, SenderCacheKey, SenderAnalysisOf(emails)),
          fromCache |-> FALSE]

\* a mutant of analyzeBySender: a call answered from the cache returns no groups
analyzeBySenderHitEmpty(cache, emails) ==
    IF emails = <<>>
    THEN [result |-> EmptySenderAnalysis, cache |-> cache, fromCache |-> FALSE]
    ELSE IF SenderCacheKey \in DOMAIN cache
    THEN [result |-> [cache[SenderCacheKey] EXCEPT !.senders = <<>>],
          cache |-> cache, fromCache |-> TRUE]
    ELSE [result |-> SenderAnalysisOf(emails),
          cache |-> CacheSet(cache, SenderCacheKey, SenderAnalysisOf(emails)),
          fromCache |-> FALSE]

\* EmailAnalyzer.analyzeBySender on an analyzer whose cache is `cache`: what it
\* returns and the cache it leaves
analyzeBySender(cache, emails) ==
    IF emails = <<>>
    THEN [result |-> EmptySenderAnalysis, cache |-> cache, fromCache |-> FALSE]
    ELSE IF SenderCacheKey \in DOMAIN cache
    THEN [result |-> cache[SenderCacheKey], cache |-> cache, fromCache |-> TRUE]
    ELSE [result |-> SenderAnalysisOf(emails),
          cache |-> CacheSet(cache, SenderCacheKey, SenderAnalysisOf(emails)),
          fromCache |-> FALSE]

\* EmailAnalyzer.analyzeBySubject, likewise
analyzeBySubject(cache, emails) ==
    IF emails = <<>>
    THEN [result |-> EmptySubjectAnalysis, cache |-> cache, fromCache |-> FALSE]
    ELSE IF SubjectCacheKey \in DOMAIN cache
    THEN [result |-> cache[SubjectCacheKey], cache |-> cache, fromCache |-> TRUE]
    ELSE [result |-> SubjectAnalysisOf(emails),
          cache |-> CacheSet(cache, SubjectCacheKey, SubjectAnalysisOf(emails)),
          fromCache |-> FALSE]

\* ------------------------------------------------------- generateInsights

DuplicateThreshold == 5
HighStorageMB == 100

\* reading a property of undefined
Throws(error) == [threw |-> TRUE, error |-> error]

\* EmailAnalyzer.generateInsights.  generateReport hands it an object with the
\* keys senderAnalysis, subjectAnalysis and sizeAnalysis; it reads
\* analyses.sizes and analyses.subjects.  The descriptions are left out.
generateInsights(emails, analyses) ==
    LET topSenders == analyses.senderAnalysis.topSenders
        topSender ==
            IF Len(topSenders) > 0
            THEN << [type |-> "top_sender",
                     severity |->
                        IF topSenders[1].count * 100 > 20 * Len(emails) THEN "high"
                        ELSE IF topSenders[1].count * 100 > 10 * Len(emails)
                             THEN "medium"
                             ELSE "low"] >>
            ELSE <<>>
    IN  IF "sizes" \notin DOMAIN analyses
        THEN Throws("TypeError")
        ELSE
        LET large == analyses.sizes.largeSenders
            storage ==
                IF Len(large) > 0
                THEN << [type |-> "storage",
                         severity |->
                            IF large[1].totalSize > HighStorageMB * KB * KB
                            THEN "high" ELSE "medium"] >>
                ELSE <<>>
        IN  IF "subjects" \notin DOMAIN analyses
            THEN Throws("TypeError")
            ELSE
            LET IsDuplicate(g) == g.count > DuplicateThreshold
                duplicateSubjects ==
                    SelectSeq(analyses.subjects.subjects, IsDuplicate)
                duplicates ==
                    IF Len(duplicateSubjects) > 0
                    THEN << [type |-> "duplicates",
                             found |-> Len(duplicateSubjects),
                             severity |-> "medium"] >>
                    ELSE <<>>
            IN  [threw |-> FALSE, insights |-> topSender \o storage \o duplicates]

\* --------------------------------------------------------- generateReport

BusyError == "Analysis already in progress"

MaxPending == 2

\* a mutant of Busy: the guard is missing
NeverBusy(flag) == FALSE

\* if (this.analysisInProgress)
Busy(flag) == flag

\* a mutant of InProgressAfter: the flag is reset on the success path only
InProgressAfterNoFinally(threw) == threw

\* finally { this.analysisInProgress = false }
InProgressAfter(threw) == FALSE

\* a mutant of InProgressAfterRejected: the busy error is thrown inside the
\* try block, whose finally block resets the flag
InProgressAfterRejectedReset(flag) == FALSE

\* the busy error is thrown before the try block: no finally block runs
InProgressAfterRejected(flag) == flag

\* generateReport from its call to its await: the busy check, the flag, and
\* the two analyses, which run to their end before the caller gets control back
generateReportCalled(emails) ==
    /\ Len(pending) < MaxPending
    /\ IF Busy(analysisInProgress)
       THEN /\ last' = [op |-> "generateReport", emails |-> emails,
                        status |-> "rejected", error |-> BusyError]
            /\ analysisInProgress' = InProgressAfterRejected(analysisInProgress)
            /\ UNCHANGED <<analysisCache, pending>>
       ELSE LET s == analyzeBySender(analysisCache, emails)
                j == analyzeBySubject(s.cache, emails)
            IN  /\ analysisInProgress' = TRUE
                /\ analysisCache' = j.cache
                /\ pending' = Append(pending,
                                [emails |-> emails,
                                 senderAnalysis |-> s.result,
                                 subjectAnalysis |-> j.result])
                /\ last' = [op |-> "generateReport", emails |-> emails,
                            status |-> "pending"]

\* a call of generateReport by itself
generateReport(emails) ==
    /\ generateReportCalled(emails)
    /\ UNCHANGED <<input, subj, norm, gmailAuth, gmailAPI, dashboard>>

\* generateReport from its await to its end: the size analysis, the report with
\* its insights, and the finally block.  The time and category analyses, which
\* read no state and cannot throw, are left out.
generateReportSettled(i) ==
    LET p == pending[i]
        sizeAnalysis == analyzeSizeDistribution(p.emails)
        insights == generateInsights(p.emails,
                        [senderAnalysis |-> p.senderAnalysis,
                         subjectAnalysis |-> p.subjectAnalysis,
                         sizeAnalysis |-> sizeAnalysis])
    IN  /\ pending' = SubSeq(pending, 1, i - 1) \o SubSeq(pending, i + 1, Len(pending))
        /\ analysisInProgress' = InProgressAfter(insights.threw)
        /\ last' =
            IF insights.threw
            THEN [op |-> "generateReport", emails |-> p.emails,
                  status |-> "threw", error |-> insights.error]
            ELSE [op |-> "generateReport", emails |-> p.emails,
                  status |-> "returned",
                  report |-> [overview |-> [totalEmails |-> Len(p.emails),
                                            totalSize |-> sizeAnalysis.totalSize],
                              senders |-> p.senderAnalysis,
                              subjects |-> p.subjectAnalysis,
                              sizes |-> sizeAnalysis,
                              insights |-> insights.insights]]
        /\ UNCHANGED analysisCache

\* the settling of a generateReport that was called by itself
generateReportSettle(i) ==
    /\ generateReportSettled(i)
    /\ UNCHANGED <<input, subj, norm, gmailAuth, gmailAPI, dashboard>>

\* a direct call of analyzeBySender
CallAnalyzeBySender(emails) ==
    LET o == analyzeBySender(analysisCache, emails)
    IN  /\ analysisCache' = o.cache
        /\ last' = [op |-> "analyzeBySender", emails |-> emails,
                    status |-> "returned", result |-> o.result,
                    fromCache |-> o.fromCache]
        /\ UNCHANGED <<analysisInProgress, pending, input, subj, norm,
                 gmailAuth, gmailAPI, dashboard>>

\* a direct call of analyzeBySubject
CallAnalyzeBySubject(emails) ==
    LET o == analyzeBySubject(analysisCache, emails)
    IN  /\ analysisCache' = o.cache
        /\ last' = [op |-> "analyzeBySubject", emails |-> emails,
                    status |-> "returned", result |-> o.result,
                    fromCache |-> o.fromCache]
        /\ UNCHANGED <<analysisInProgress, pending, input, subj, norm,
                 gmailAuth, gmailAPI, dashboard>>

\* a direct call of calculateSenderEfficiency
CallCalculateSenderEfficiency(sender) ==
    /\ last' = [op |-> "calculateSenderEfficiency", sender |-> sender,
                status |-> "returned",
                result |-> calculateSenderEfficiency(sender)]
    /\ UNCHANGED <<analysisCache, analysisInProgress, pending, input, subj, norm,
                 gmailAuth, gmailAPI, dashboard>>

\* a direct call of analyzeSizeDistribution
CallAnalyzeSizeDistribution(emails) ==
    /\ last' = [op |-> "analyzeSizeDistribution", emails |-> emails,
                status |-> "returned", result |-> analyzeSizeDistribution(emails)]
    /\ UNCHANGED <<analysisCache, analysisInProgress, pending, input, subj, norm,
                 gmailAuth, gmailAPI, dashboard>>

\* EmailAnalyzer.clearCache
clearCache ==
    /\ analysisCache' = EmptyCache
    /\ last' = [op |-> "clearCache"]
    /\ UNCHANGED <<analysisInProgress, pending, input, subj, norm,
                 gmailAuth, gmailAPI, dashboard>>

\* ------------------------------------------------------------- EmailParser
\* A raw message is a record; a property it lacks is undefined.  A header is
\* a record with a name and a value, either of which may be lacking.

\* null, as a message and as the result of parseMessage
Null == [isNull |-> TRUE]
IsNull(x) == "isNull" \in DOMAIN x

\* a string or undefined, as a function receives it
Undefined == [undefined |-> TRUE]
Str(v) == [undefined |-> FALSE, value |-> v]

\* !x, of a string or undefined
Falsy(x) == x.undefined \/ x.value = <<>>

\* the index of the first c in s at or after i, 0 when there is none
RECURSIVE IndexOfChar(_, _, _)
IndexOfChar(s, c, i) ==
    IF i > Len(s) THEN 0
    ELSE IF s[i] = c THEN i
    ELSE IndexOfChar(s, c, i + 1)

\* s.replace(/[<>]/g, '')
RemoveAngles(s) == SelectSeq(s, LAMBDA c : c \notin {"<", ">"})

\* EmailParser._extractHeaders: the map from the lower-case header names to
\* the values, a later header replacing an earlier one of the same name;
\* header.name.toLowerCase() throws on a header without a name.  A name set to
\* undefined (a header without a value) reads like a name that is not set.
RECURSIVE _extractHeaders(_)
_extractHeaders(headers) ==
    IF headers = <<>> THEN [threw |-> FALSE, map |-> [n \in {} |-> <<>>]]
    ELSE LET before == _extractHeaders(SubSeq(headers, 1, Len(headers) - 1))
             header == headers[Len(headers)]
         IN  IF before.threw \/ "name" \notin DOMAIN header
             THEN Throws("TypeError")
             ELSE LET name == ToLowerCase(header.name)
                      names == IF "value" \in DOMAIN header
                               THEN DOMAIN before.map \cup {name}
                               ELSE DOMAIN before.map \ {name}
                  IN  [threw |-> FALSE,
                       map |-> [n \in names |->
                                  IF n = name THEN header.value
                                  ELSE before.map[n]]]

\* headers.date, headers.from, ...
HeaderOf(map, name) == IF name \in DOMAIN map THEN Str(map[name]) ELSE Undefined

DateName == <<"d","a","t","e">>
FromName == <<"f","r","o","m">>
SubjectName == <<"s","u","b","j","e","c","t">>

DigitChars == <<"0","1","2","3","4","5","6","7","8","9">>

IsDigit(c) == \E i \in 1..10 : DigitChars[i] = c
DigitValue(c) == (CHOOSE i \in 1..10 : DigitChars[i] = c) - 1

MsPerDay == 86400000
LastDay == 24

\* the time value of new Date(s): for a date of January 1970 written
\* 1970-01-DD, the milliseconds from the epoch to its midnight (UTC); NaN, the
\* time value of an Invalid Date, for a string that is not a date.  The days
\* stop at LastDay, which keeps the time value within 32 bits.
DateTime(s) ==
    IF /\ Len(s) = 10
       /\ SubSeq(s, 1, 8) = <<"1","9","7","0","-","0","1","-">>
       /\ IsDigit(s[9]) /\ IsDigit(s[10])
       /\ 10 * DigitValue(s[9]) + DigitValue(s[10]) \in 1..LastDay
    THEN Num((10 * DigitValue(s[9]) + DigitValue(s[10]) - 1) * MsPerDay)
    ELSE NaN

\* EmailParser._parseDate: null, or the Date that new Date builds, which does
\* not throw on a string that is not a date
_parseDate(dateString) ==
    IF Falsy(dateString) THEN Null
    ELSE [time |-> DateTime(dateString.value)]

\* EmailParser._parseTimestamp: date ? date.getTime() : 0, and a Date is
\* truthy whether it is valid or not
_parseTimestamp(dateString) ==
    LET date == _parseDate(dateString)
    IN  IF IsNull(date) THEN Num(0) ELSE date.time

\* EmailParser._parseSender
_parseSender(fromHeader) ==
    IF Falsy(fromHeader) THEN UnknownSenderText
    ELSE Trim(RemoveAngles(fromHeader.value))

\* the places where /<([^>]+)>/ can begin a match: a "<", then a character
\* that is not ">", then a ">" somewhere after
AngleStarts(s) ==
    {i \in 1..Len(s) : /\ s[i] = "<"
                       /\ i + 1 <= Len(s)
                       /\ s[i + 1] # ">"
                       /\ IndexOfChar(s, ">", i + 1) # 0}

\* \w, and [\w.-]
WordChars ==
    {UpperChars[i] : i \in 1..26} \cup {LowerChars[i] : i \in 1..26}
        \cup {DigitChars[i] : i \in 1..10} \cup {"_"}
AddressChars == WordChars \cup {".", "-"}

\* the start of the run of characters of `chars` that ends at i
RECURSIVE RunStart(_, _, _)
RunStart(s, chars, i) ==
    IF i > 1 /\ s[i - 1] \in chars THEN RunStart(s, chars, i - 1) ELSE i

\* the end of the run of characters of `chars` that starts at i
RECURSIVE RunEnd(_, _, _)
RunEnd(s, chars, i) ==
    IF i < Len(s) /\ s[i + 1] \in chars THEN RunEnd(s, chars, i + 1) ELSE i

\* the dots at which /[\w.-]+@[\w.-]+\.\w+/ can match its \. when the @ is at
\* q: within the run of address characters after the @, not at its start, and
\* followed by a word character
DomainDots(s, q) ==
    IF q + 1 > Len(s) \/ s[q + 1] \notin AddressChars THEN {}
    ELSE {d \in (q + 2)..RunEnd(s, AddressChars, q + 1) :
            /\ s[d] = "."
            /\ d + 1 <= Len(s)
            /\ s[d + 1] \in WordChars}

\* the places of an @ at which the pattern matches
AddressAts(s) ==
    {q \in 2..Len(s) : /\ s[q] = "@"
                       /\ s[q - 1] \in AddressChars
                       /\ DomainDots(s, q) # {}}

SetMin(S) == CHOOSE x \in S : \A y \in S : x <= y
SetMax(S) == CHOOSE x \in S : \A y \in S : x >= y

\* the first match of /[\w.-]+@[\w.-]+\.\w+/ in s: the leftmost, and from
\* there the longest each greedy part allows
AddressMatch(s) ==
    LET q == SetMin(AddressAts(s))
        d == SetMax(DomainDots(s, q))
    IN  SubSeq(s, RunStart(s, AddressChars, q - 1), RunEnd(s, WordChars, d + 1))

\* EmailParser._extractEmail
_extractEmail(fromHeader) ==
    IF Falsy(fromHeader) THEN <<>>
    ELSE LET s == fromHeader.value
         IN  IF AngleStarts(s) # {}
             THEN LET i == SetMin(AngleStarts(s))
                  IN  ToLowerCase(Trim(SubSeq(s, i + 1,
                                              IndexOfChar(s, ">", i + 1) - 1)))
             ELSE IF AddressAts(s) # {}
                  THEN ToLowerCase(AddressMatch(s))
                  ELSE ToLowerCase(s)

Quotes == {"\"", "'"}

\* s.replace(/^["']|["']$/g, '')
StripQuotes(s) ==
    LET t == IF s # <<>> /\ s[1] \in Quotes THEN Tail(s) ELSE s
    IN  IF t # <<>> /\ t[Len(t)] \in Quotes THEN SubSeq(t, 1, Len(t) - 1) ELSE t

\* EmailParser._extractName
_extractName(fromHeader) ==
    IF Falsy(fromHeader) THEN <<>>
    ELSE LET s == fromHeader.value
             open == IndexOfChar(s, "<", 1)
             at == IndexOfChar(s, "@", 1)
         IN  \* /^([^<]+)<[^>]+>$/
             IF /\ open > 1
                /\ Len(s) >= open + 2
                /\ IndexOfChar(s, ">", open + 1) = Len(s)
             THEN StripQuotes(Trim(SubSeq(s, 1, open - 1)))
             ELSE IF at > 1
                  THEN Trim(SubSeq(s, 1, at - 1))
                  ELSE Trim(s)

\* EmailParser._cleanSubject
_cleanSubject(subject) ==
    IF Falsy(subject) THEN NoSubjectUpper
    ELSE Trim(CollapseWhitespace(subject.value))

\* labels.includes(label)
Includes(labels, label) == \E i \in 1..Len(labels) : labels[i] = label

\* a mutant of _determineCategory: social is looked for before promotions
_determineCategorySocialFirst(labels) ==
    IF Includes(labels, "CATEGORY_SOCIAL") THEN "social"
    ELSE IF Includes(labels, "CATEGORY_PROMOTIONS") THEN "promotions"
    ELSE IF Includes(labels, "CATEGORY_UPDATES") THEN "updates"
    ELSE IF Includes(labels, "CATEGORY_FORUMS") THEN "forums"
    ELSE IF Includes(labels, "SPAM") THEN "spam"
    ELSE IF Includes(labels, "IMPORTANT") THEN "important"
    ELSE "primary"

\* EmailParser._determineCategory
_determineCategory(labels) ==
    IF Includes(labels, "CATEGORY_PROMOTIONS") THEN "promotions"
    ELSE IF Includes(labels, "CATEGORY_SOCIAL") THEN "social"
    ELSE IF Includes(labels, "CATEGORY_UPDATES") THEN "updates"
    ELSE IF Includes(labels, "CATEGORY_FORUMS") THEN "forums"
    ELSE IF Includes(labels, "SPAM") THEN "spam"
    ELSE IF Includes(labels, "IMPORTANT") THEN "important"
    ELSE "primary"

\* message.labelIds || []
LabelsOf(message) ==
    IF "labelIds" \in DOMAIN message THEN message.labelIds ELSE <<>>

\* EmailParser.parseMessage: null for a message that is null or has no
\* payload, and null again when anything in the try block throws.  The fields
\* threadId, snippet, recipient and hasAttachments are left out.
parseMessage(message) ==
    IF IsNull(message) \/ "payload" \notin DOMAIN message THEN Null
    ELSE LET extracted ==
                _extractHeaders(IF "headers" \in DOMAIN message.payload
                                THEN message.payload.headers ELSE <<>>)
         IN  IF extracted.threw THEN Null
             ELSE
             LET headers == extracted.map
                 from == HeaderOf(headers, FromName)
                 date == HeaderOf(headers, DateName)
                 labels == LabelsOf(message)
             IN  [id |-> message.id,
                  sizeEstimate |-> SizeEstimateOrZero(message),
                  date |-> _parseDate(date),
                  timestamp |-> _parseTimestamp(date),
                  sender |-> _parseSender(from),
                  senderEmail |-> _extractEmail(from),
                  senderName |-> _extractName(from),
                  subject |-> _cleanSubject(HeaderOf(headers, SubjectName)),
                  labels |-> labels,
                  isRead |-> ~Includes(labels, "UNREAD"),
                  category |-> _determineCategory(labels)]

\* EmailParser.parseMessages on an array: the results of parseMessage that are
\* not null, in the order of the messages
parseMessages(messages) ==
    SelectSeq([i \in 1..Len(messages) |-> parseMessage(messages[i])],
              LAMBDA e : ~IsNull(e))

\* JavaScript's a < b on two numbers: false when either is NaN
LessThan(a, b) == ~a.nan /\ ~b.nan /\ a.value < b.value

\* the "Update date range" step of groupBySender and groupBySubject
UpdateRange(range, email) ==
    LET earliest == IF LessThan(email.timestamp, range.earliest)
                    THEN email.timestamp ELSE range.earliest
        latest == IF LessThan(range.latest, email.timestamp)
                  THEN email.timestamp ELSE range.latest
    IN  [earliest |-> earliest, latest |-> latest]

\* what groupBySender and groupBySubject do with one email: the group of its
\* key, made when the Map has none, gets the email, its size and its timestamp
AddToGroup(groups, key, fresh, email) ==
    LET i == IndexOfKey(groups, key)
        old == IF i = 0 THEN groups \o <<fresh>> ELSE groups
        j == IF i = 0 THEN Len(old) ELSE i
        g == old[j]
    IN  [old EXCEPT ![j] =
            [g EXCEPT !.emails = Append(g.emails, email),
                      !.totalSize = g.totalSize + email.sizeEstimate,
                      !.dateRange = UpdateRange(g.dateRange, email)]]

\* the group that groupBySender sets for a sender the Map does not have
NewParserSenderGroup(key, email) ==
    [id |-> key,
     senderEmail |-> email.senderEmail,
     senderName |-> email.senderName,
     emails |-> <<>>,
     totalSize |-> 0,
     dateRange |-> [earliest |-> email.timestamp, latest |-> email.timestamp]]

\* the group that groupBySubject sets for a subject the Map does not have
NewParserSubjectGroup(key, email) ==
    [id |-> key,
     subject |-> email.subject,
     normalizedSubject |-> key,
     emails |-> <<>>,
     totalSize |-> 0,
     dateRange |-> [earliest |-> email.timestamp, latest |-> email.timestamp]]

\* EmailParser.groupBySender: the Map as the sequence of its values in
\* insertion order, each with its key
RECURSIVE groupBySender(_)
groupBySender(emails) ==
    IF emails = <<>> THEN <<>>
    ELSE LET email == emails[Len(emails)]
             key == ToLowerCase(email.senderEmail)
         IN  AddToGroup(groupBySender(SubSeq(emails, 1, Len(emails) - 1)),
                        key, NewParserSenderGroup(key, email), email)

\* EmailParser.groupBySubject
RECURSIVE groupBySubject(_)
groupBySubject(emails) ==
    IF emails = <<>> THEN <<>>
    ELSE LET email == emails[Len(emails)]
             key == EmailParser_normalizeSubject(email.subject)
         IN  AddToGroup(groupBySubject(SubSeq(emails, 1, Len(emails) - 1)),
                        key, NewParserSubjectGroup(key, email), email)

\* --------------------------------------------------------------- GmailAuth
\* The GmailAuth that uses Google Identity Services.  The object has the
\* fields of its constructor; tokenClient is null or the token client, of
\* which the model keeps what its callback is: "unset" ('', as initTokenClient
\* is given it), "awaited" (the closure of a signIn that waits for it) or
\* "settled" (the closure of a signIn that has returned).  With the object go
\* the token requests that Google has not answered yet and the signOut calls
\* that wait for the revocation of the token.  A signIn whose closure another
\* signIn has replaced never returns.  getCurrentUser, which asks the Gmail API
\* and sets currentUser only, is left out.

MaxRequests == 2
MaxRevoking == 2

\* the access tokens Google grants
Tokens == {[token |-> "token-1"], [token |-> "token-2"]}

\* what Google answers to requestAccessToken
TokenResponses ==
    {[error |-> e] : e \in {"popup_closed_by_user", "access_denied", "other"}}
        \cup {[access_token |-> t] : t \in Tokens}

\* new GmailAuth()
NewGmailAuth ==
    [isSignedIn |-> FALSE,
     currentUser |-> Null,
     accessToken |-> Null,
     tokenClient |-> Null,
     requests |-> 0,
     revoking |-> 0]

\* google.accounts.oauth2.initTokenClient({..., callback: ''})
NewTokenClient == [callback |-> "unset"]

\* GmailAuth.getAuthToken
getAuthToken(auth) == auth.accessToken

\* GmailAuth.isUserSignedIn
isUserSignedIn(auth) == auth.isSignedIn

\* App.clearSensitiveData, which the App runs on the event gmailAuthSignOut
\* (through handleAuthStateChange and updateUIForUnauthenticatedUser) and
\* after its own signOut: of the objects of the model it resets the
\* Dashboard's currentAnalysis
clearSensitiveData(dash) == [dash EXCEPT !.currentAnalysis = Null]

\* a mutant of SignedIn: the token is stored and the flag is not set
SignedInNoFlag(auth, token) == [auth EXCEPT !.accessToken = token]

\* the callback of signIn on a response without an error
SignedIn(auth, token) ==
    [auth EXCEPT !.accessToken = token, !.isSignedIn = TRUE]

\* a mutant of SignedOut: the token is kept
SignedOutKeepToken(auth) ==
    [auth EXCEPT !.isSignedIn = FALSE, !.currentUser = Null]

\* signOut: clear auth state
SignedOut(auth) ==
    [auth EXCEPT !.accessToken = Null, !.isSignedIn = FALSE,
                 !.currentUser = Null]

\* GmailAuth.initialize, with what validateConfig, the loading of the Google
\* libraries and initTokenClient come to: the object changes only when all
\* succeed, and then gets a new token client.  The model has it called while
\* no token request is unanswered.
initialize(succeeds) ==
    /\ gmailAuth.requests = 0
    /\ gmailAuth' = IF succeeds
                    THEN [gmailAuth EXCEPT !.tokenClient = NewTokenClient]
                    ELSE gmailAuth
    /\ last' = [op |-> "initialize", status |-> "returned", result |-> succeeds]
    /\ UNCHANGED <<analysisCache, analysisInProgress, pending, input, subj, norm,
                   gmailAPI, dashboard>>

\* GmailAuth.signIn to its await: without a token client it returns false;
\* with one it sets the client's callback and requests an access token
signIn ==
    /\ IF IsNull(gmailAuth.tokenClient)
       THEN /\ last' = [op |-> "signIn", status |-> "returned", result |-> FALSE]
            /\ UNCHANGED gmailAuth
       ELSE /\ gmailAuth.requests < MaxRequests
            /\ gmailAuth' = [gmailAuth EXCEPT !.tokenClient.callback = "awaited",
                                              !.requests = @ + 1]
            /\ last' = [op |-> "signIn", status |-> "pending"]
    /\ UNCHANGED <<analysisCache, analysisInProgress, pending, input, subj, norm,
                   gmailAPI, dashboard>>

\* Google answers a token request: the callback of the token client runs.  On
\* an error it rejects the promise of its signIn, which returns false; else it
\* stores the token, sets the flag and resolves, and its signIn returns true.
\* A promise that is settled already is left as it is, but the callback stores
\* the token all the same.
tokenCallback(response) ==
    /\ gmailAuth.requests > 0
    /\ LET awaited == gmailAuth.tokenClient.callback = "awaited"
           answered == [gmailAuth EXCEPT !.requests = @ - 1,
                                         !.tokenClient.callback = "settled"]
       IN  IF "error" \in DOMAIN response
           THEN /\ gmailAuth' = answered
                /\ last' = IF awaited
                           THEN [op |-> "signIn", status |-> "returned",
                                 result |-> FALSE]
                           ELSE [op |-> "tokenCallback", response |-> response]
           ELSE /\ gmailAuth' = SignedIn(answered, response.access_token)
                /\ last' = IF awaited
                           THEN [op |-> "signIn", status |-> "returned",
                                 result |-> TRUE,
                                 granted |-> response.access_token]
                           ELSE [op |-> "tokenCallback", response |-> response]
    /\ UNCHANGED <<analysisCache, analysisInProgress, pending, input, subj, norm,
                   gmailAPI, dashboard>>

\* GmailAuth.signOut to its await: with a token it asks Google to revoke it
\* and waits; without one it clears the auth state at once, runs _onSignOut,
\* whose event has the App clear its sensitive data, and returns true
signOut ==
    /\ IF ~IsNull(gmailAuth.accessToken)
       THEN /\ gmailAuth.revoking < MaxRevoking
            /\ gmailAuth' = [gmailAuth EXCEPT !.revoking = @ + 1]
            /\ last' = [op |-> "signOut", status |-> "pending"]
            /\ UNCHANGED dashboard
       ELSE /\ gmailAuth' = SignedOut(gmailAuth)
            /\ dashboard' = clearSensitiveData(dashboard)
            /\ last' = [op |-> "signOut", status |-> "returned", result |-> TRUE,
                        revoked |-> FALSE]
    /\ UNCHANGED <<analysisCache, analysisInProgress, pending, input, subj, norm,
                   gmailAPI>>

\* the fetch of the revocation settles: when it is fulfilled signOut clears
\* the auth state, runs _onSignOut and returns true; when it is rejected
\* signOut returns false and leaves the object as it is
revokeSettled(fulfilled) ==
    /\ gmailAuth.revoking > 0
    /\ IF fulfilled
       THEN /\ gmailAuth' = SignedOut([gmailAuth EXCEPT !.revoking = @ - 1])
            /\ dashboard' = clearSensitiveData(dashboard)
       ELSE /\ gmailAuth' = [gmailAuth EXCEPT !.revoking = @ - 1]
            /\ UNCHANGED dashboard
    /\ last' = [op |-> "signOut", status |-> "returned", result |-> fulfilled,
                revoked |-> fulfilled]
    /\ UNCHANGED <<analysisCache, analysisInProgress, pending, input, subj, norm,
                   gmailAPI>>

\* ---------------------------------------------------------------- GmailAPI
\* The calls of the Gmail API.  gmailAPI is the call of the GmailAPI object
\* that is under way, NoCall when there is none; a call that has settled goes
\* to last.  A request to Google is answered with a response that has a result
\* or fails with an error: one with an HTTP status, or one without, like the
\* TypeError of a method that gapi.client does not have.

ListMethod == "gmail.users.messages.list"
GetMethod == "gmail.users.messages.get"

RateLimited == [status |-> 429]
ApiErrors ==
    {RateLimited, [status |-> 500], [status |-> 401], [name |-> "TypeError"]}

IsError(response) == "result" \notin DOMAIN response

\* const maxRetries = 3
maxRetries == 3

\* a mutant of backoffDelay: the delay grows by one second with every retry
backoffDelayLinear(retryCount) == (retryCount + 1) * 1000

\* const backoffDelay = 2 ** retryCount * 1000
backoffDelay(retryCount) == 2 ^ retryCount * 1000

\* a mutant of ShouldRetry: every error is retried
ShouldRetryAny(error, retryCount) == retryCount < maxRetries

\* error.status === 429 && retryCount < maxRetries
ShouldRetry(error, retryCount) ==
    /\ "status" \in DOMAIN error
    /\ error.status = 429
    /\ retryCount < maxRetries

\* _makeAPICall(method, params) at its first request: retryCount is 0.  With
\* the call go the responses it has had and the delays it has waited, which
\* the code does not keep.
NewCall(method) ==
    [method |-> method, retryCount |-> 0, pc |-> "request",
     responses |-> <<>>, delays |-> <<>>]

\* the call when its request is answered: return response.result, or the
\* catch block, which waits to retry or throws the error
Responded(call, response) ==
    LET seen == [call EXCEPT !.responses = Append(call.responses, response)]
    IN  IF ~IsError(response)
        THEN [seen EXCEPT !.pc = "returned"] @@ [result |-> response.result]
        ELSE IF ShouldRetry(response, call.retryCount)
             THEN [seen EXCEPT !.pc = "delay",
                               !.delays = Append(call.delays,
                                                 backoffDelay(call.retryCount))]
             ELSE [seen EXCEPT !.pc = "threw"] @@ [error |-> response]

\* the call when its delay is over:
\* return this._makeAPICall(method, params, retryCount + 1)
Retried(call) ==
    [call EXCEPT !.pc = "request", !.retryCount = call.retryCount + 1]

Settled(call) == call.pc \in {"returned", "threw"}

\* the results of the requests of the model
CallResults == {[messages |-> <<[id |-> 1]>>], [id |-> 1]}

\* a call of _makeAPICall on its own
_makeAPICall(method) ==
    /\ gmailAPI = NoCall
    /\ gmailAPI' = [op |-> "_makeAPICall", call |-> NewCall(method)]
    /\ UNCHANGED <<analysisCache, analysisInProgress, pending, last, input,
                   subj, norm, gmailAuth, dashboard>>

\* Google answers the request of the call; a call that returns or throws is
\* over
CallResponded(response) ==
    /\ gmailAPI.op = "_makeAPICall"
    /\ gmailAPI.call.pc = "request"
    /\ LET call == Responded(gmailAPI.call, response)
       IN  IF Settled(call)
           THEN /\ gmailAPI' = NoCall
                /\ last' = [op |-> "_makeAPICall", status |-> call.pc,
                            call |-> call]
           ELSE /\ gmailAPI' = [gmailAPI EXCEPT !.call = call]
                /\ UNCHANGED last
    /\ UNCHANGED <<analysisCache, analysisInProgress, pending, input, subj, norm,
                   gmailAuth, dashboard>>

\* the timer of _delay(backoffDelay) fires
CallDelayed ==
    /\ gmailAPI.op = "_makeAPICall"
    /\ gmailAPI.call.pc = "delay"
    /\ gmailAPI' = [gmailAPI EXCEPT !.call = Retried(gmailAPI.call)]
    /\ UNCHANGED <<analysisCache, analysisInProgress, pending, last, input,
                   subj, norm, gmailAuth, dashboard>>

\* the gmailAuth of a user who has signed in: initialize, signIn and a token
\* from Google
SignedInAuth ==
    SignedIn([NewGmailAuth EXCEPT !.tokenClient = [callback |-> "settled"]],
             [token |-> "token-1"])

\* GmailAPI._checkAuth
_checkAuth(auth) == isUserSignedIn(auth)

\* const maxPages = options.maxPages || 50
DefaultMaxPages == 50
MaxPagesOf(options) ==
    IF "maxPages" \in DOMAIN options /\ options.maxPages # 0
    THEN options.maxPages
    ELSE DefaultMaxPages

\* The page that Google answers a list request with.  A page token is the
\* number of the page it was given on, 0 for null and undefined: no token.
\* A mailbox says which of its first pages have messages and whether pages
\* follow without end; page k has the messages 2k-1 and 2k.
ServerPage(mailbox, pageToken) ==
    LET k == pageToken + 1
        messages == IF k <= Len(mailbox.has) /\ ~mailbox.has[k]
                    THEN [j \in {} |-> TRUE]
                    ELSE [messages |-> <<[id |-> 2 * k - 1], [id |-> 2 * k]>>]
        token == IF k < Len(mailbox.has) \/ mailbox.endless
                 THEN [nextPageToken |-> k]
                 ELSE [j \in {} |-> TRUE]
    IN  messages @@ token

\* nextPageToken = response.nextPageToken
TokenOf(response) ==
    IF "nextPageToken" \in DOMAIN response THEN response.nextPageToken ELSE 0

\* if (response.messages) allMessages.push(...response.messages)
PushMessages(allMessages, response) ==
    IF "messages" \in DOMAIN response
    THEN allMessages \o response.messages
    ELSE allMessages

\* a mutant of LoopsAgain: the loop goes on while there is a token
LoopsAgainUnlimited(run) == run.nextPageToken # 0

\* while (nextPageToken && pageCount < maxPages)
LoopsAgain(run) == run.nextPageToken # 0 /\ run.pageCount < run.maxPages

\* a mutant of CaughtResult: the catch block returns what has been fetched
CaughtResultKept(run) == run.allMessages

\* catch (error) { ...; return []; }
CaughtResult(run) == <<>>

\* getAllMessages is over: what it returned, with the pages it was given and
\* the calls of _makeAPICall it made
AllMessagesReturned(run, result) ==
    [op |-> "getAllMessages", status |-> "returned", result |-> result,
     options |-> run.options, signedIn |-> run.signedIn,
     pages |-> run.pages, calls |-> run.calls, failed |-> run.failed]

\* the body of the do loop, begun: a list call
ListCalled(run) ==
    [run EXCEPT !.pc = "list", !.call = NewCall(ListMethod),
                !.calls = run.calls + 1]

\* a call of getAllMessages: an empty array when the user is not signed in,
\* and else the first list call
getAllMessages(options) ==
    /\ gmailAPI = NoCall
    /\ LET run == [op |-> "getAllMessages", options |-> options,
                   signedIn |-> _checkAuth(gmailAuth),
                   allMessages |-> <<>>, nextPageToken |-> 0, pageCount |-> 0,
                   maxPages |-> MaxPagesOf(options), pages |-> <<>>,
                   calls |-> 0, failed |-> FALSE,
                   pc |-> "start", call |-> NoCall]
       IN  IF ~_checkAuth(gmailAuth)
           THEN /\ last' = AllMessagesReturned(run, <<>>)
                /\ UNCHANGED gmailAPI
           ELSE /\ gmailAPI' = ListCalled(run)
                /\ UNCHANGED last
    /\ UNCHANGED <<analysisCache, analysisInProgress, pending, input, subj, norm,
                   gmailAuth, dashboard>>

\* the request of the list call is answered.  A call that returns gives the
\* page to the loop, which ends when the page has no token and else waits
\* for rateLimitDelay; a call that throws ends getAllMessages in its catch
\* block.
ListResponded(response) ==
    /\ gmailAPI.op = "getAllMessages"
    /\ gmailAPI.pc = "list"
    /\ gmailAPI.call.pc = "request"
    /\ LET call == Responded(gmailAPI.call, response)
           page == call.result
           run == [gmailAPI EXCEPT
                      !.call = call,
                      !.allMessages = PushMessages(gmailAPI.allMessages, page),
                      !.nextPageToken = TokenOf(page),
                      !.pageCount = gmailAPI.pageCount + 1,
                      !.pages = Append(gmailAPI.pages, page)]
       IN  CASE call.pc = "delay" ->
                   /\ gmailAPI' = [gmailAPI EXCEPT !.call = call]
                   /\ UNCHANGED last
             [] call.pc = "threw" ->
                   /\ gmailAPI' = NoCall
                   /\ last' = AllMessagesReturned(
                                 [gmailAPI EXCEPT !.failed = TRUE],
                                 CaughtResult(gmailAPI))
             [] call.pc = "returned" /\ run.nextPageToken # 0 ->
                   /\ gmailAPI' = [run EXCEPT !.pc = "delay"]
                   /\ UNCHANGED last
             [] call.pc = "returned" /\ run.nextPageToken = 0 ->
                   /\ gmailAPI' = NoCall
                   /\ last' = AllMessagesReturned(run, run.allMessages)
    /\ UNCHANGED <<analysisCache, analysisInProgress, pending, input, subj, norm,
                   gmailAuth, dashboard>>

\* the timer of the list call's backoff fires
ListRetried ==
    /\ gmailAPI.op = "getAllMessages"
    /\ gmailAPI.pc = "list"
    /\ gmailAPI.call.pc = "delay"
    /\ gmailAPI' = [gmailAPI EXCEPT !.call = Retried(gmailAPI.call)]
    /\ UNCHANGED <<analysisCache, analysisInProgress, pending, last, input,
                   subj, norm, gmailAuth, dashboard>>

\* the timer of _delay(this.rateLimitDelay) fires: the loop tests its
\* condition, and goes on or returns
PageDelayed ==
    /\ gmailAPI.op = "getAllMessages"
    /\ gmailAPI.pc = "delay"
    /\ IF LoopsAgain(gmailAPI)
       THEN /\ gmailAPI' = ListCalled(gmailAPI)
            /\ UNCHANGED last
       ELSE /\ gmailAPI' = NoCall
            /\ last' = AllMessagesReturned(gmailAPI, gmailAPI.allMessages)
    /\ UNCHANGED <<analysisCache, analysisInProgress, pending, input, subj, norm,
                   gmailAuth, dashboard>>

\* APP_CONFIG.MAX_CONCURRENT_REQUESTS
MAX_CONCURRENT_REQUESTS == 5

\* a promise of batchPromises that has not settled
Unsettled == [unsettled |-> TRUE]

\* messageIds.slice(i, i + batchSize), its promises not settled
NewBatch(messageIds, i) ==
    [k \in 1..(Min(i + MAX_CONCURRENT_REQUESTS, Len(messageIds)) - i) |->
        Unsettled]

\* a mutant of Processed: i + batchSize
ProcessedUnclamped(i, n) == i + MAX_CONCURRENT_REQUESTS

\* Math.min(i + batchSize, messageIds.length)
Processed(i, n) == Min(i + MAX_CONCURRENT_REQUESTS, n)

\* Math.round((processed / n) * 100), the half rounded up
RoundPercentage(processed, n) == (200 * processed + n) \div (2 * n)

\* the argument of onProgress
ProgressOf(i, n) ==
    [processed |-> Processed(i, n), total |-> n,
     percentage |-> RoundPercentage(Processed(i, n), n)]

\* a mutant of ValidResults: a batch with a failed fetch gives nothing
ValidResultsAllOrNone(batchResults) ==
    IF \E k \in 1..Len(batchResults) : IsNull(batchResults[k])
    THEN <<>>
    ELSE batchResults

\* batchResults.filter((result) => result !== null)
ValidResults(batchResults) == SelectSeq(batchResults, LAMBDA x : ~IsNull(x))

\* getMessageDetails is over: what it returned, with the calls of onProgress
\* and the ids whose fetch failed
DetailsReturned(run, result) ==
    [op |-> "getMessageDetails", status |-> "returned", result |-> result,
     messageIds |-> run.messageIds, onProgress |-> run.onProgress,
     signedIn |-> run.signedIn, progress |-> run.progress,
     batches |-> run.batches, failedIds |-> run.failedIds]

\* a call of getMessageDetails: an empty array when the user is not signed in
\* or there is no id, and else the requests of the first batch.  onProgress
\* says whether a callback is given; the calls of the callback are kept in
\* progress, the batches completed are counted in batches and the ids whose
\* fetch failed are kept in failedIds, none of which the code keeps.
getMessageDetails(messageIds, onProgress) ==
    /\ gmailAPI = NoCall
    /\ LET run == [op |-> "getMessageDetails", messageIds |-> messageIds,
                   onProgress |-> onProgress,
                   signedIn |-> _checkAuth(gmailAuth),
                   i |-> 0, pc |-> "batch",
                   batchResults |-> NewBatch(messageIds, 0),
                   detailedMessages |-> <<>>, progress |-> <<>>,
                   batches |-> 0, failedIds |-> {}]
       IN  IF ~_checkAuth(gmailAuth) \/ Len(messageIds) = 0
           THEN /\ last' = DetailsReturned(run, <<>>)
                /\ UNCHANGED gmailAPI
           ELSE /\ gmailAPI' = run
                /\ UNCHANGED last
    /\ UNCHANGED <<analysisCache, analysisInProgress, pending, input, subj, norm,
                   gmailAuth, dashboard>>

\* the _makeAPICall of the k-th message of the batch returns the message, or
\* throws, which the catch block of the promise turns into null
GetSettled(k, returns) ==
    /\ gmailAPI.op = "getMessageDetails"
    /\ gmailAPI.pc = "batch"
    /\ k \in DOMAIN gmailAPI.batchResults
    /\ gmailAPI.batchResults[k] = Unsettled
    /\ LET id == gmailAPI.messageIds[gmailAPI.i + k]
       IN  gmailAPI' =
              [gmailAPI EXCEPT
                  !.batchResults[k] = IF returns THEN [id |-> id] ELSE Null,
                  !.failedIds = IF returns THEN @ ELSE @ \cup {id}]
    /\ UNCHANGED <<analysisCache, analysisInProgress, pending, last, input,
                   subj, norm, gmailAuth, dashboard>>

\* Promise.all of the batch is fulfilled: the results that are not null are
\* kept, onProgress is called, and the loop waits before the next batch or
\* ends
BatchCompleted ==
    /\ gmailAPI.op = "getMessageDetails"
    /\ gmailAPI.pc = "batch"
    /\ \A k \in DOMAIN gmailAPI.batchResults :
          gmailAPI.batchResults[k] # Unsettled
    /\ LET n == Len(gmailAPI.messageIds)
           run == [gmailAPI EXCEPT
                      !.detailedMessages = @ \o ValidResults(gmailAPI.batchResults),
                      !.progress = IF gmailAPI.onProgress
                                   THEN Append(@, ProgressOf(gmailAPI.i, n))
                                   ELSE @,
                      !.batches = @ + 1]
       IN  IF gmailAPI.i + MAX_CONCURRENT_REQUESTS < n
           THEN /\ gmailAPI' = [run EXCEPT !.pc = "delay"]
                /\ UNCHANGED last
           ELSE /\ gmailAPI' = NoCall
                /\ last' = DetailsReturned(run, run.detailedMessages)
    /\ UNCHANGED <<analysisCache, analysisInProgress, pending, input, subj, norm,
                   gmailAuth, dashboard>>

\* the timer of _delay(this.rateLimitDelay * 2) fires: i += batchSize, and the
\* requests of the next batch
BatchDelayed ==
    /\ gmailAPI.op = "getMessageDetails"
    /\ gmailAPI.pc = "delay"
    /\ LET i == gmailAPI.i + MAX_CONCURRENT_REQUESTS
       IN  gmailAPI' = [gmailAPI EXCEPT
                           !.i = i, !.pc = "batch",
                           !.batchResults = NewBatch(gmailAPI.messageIds, i)]
    /\ UNCHANGED <<analysisCache, analysisInProgress, pending, last, input,
                   subj, norm, gmailAuth, dashboard>>

\* --------------------------------------------------------------- Dashboard

\* The Dashboard has the fields isAnalyzing and currentAnalysis, and an
\* EmailAnalyzer of its own, which is the analyzer of the model.  With the
\* object go the calls of startAnalysis that are past its guard and not over,
\* each at the await it waits at: "signIn", "fetch" or "report".

\* new Dashboard()
NewDashboard ==
    [isAnalyzing |-> FALSE, currentAnalysis |-> Null, runs |-> <<>>]

MaxRuns == 2

\* a mutant of Analyzing: the guard is missing
NeverAnalyzing(dash) == FALSE

\* if (this.isAnalyzing)
Analyzing(dash) == dash.isAnalyzing

\* a mutant of Finally: isAnalyzing is left as it is
FinallyKeepsAnalyzing(dash, r) ==
    [dash EXCEPT !.runs = SubSeq(@, 1, r - 1) \o SubSeq(@, r + 1, Len(@))]

\* the end of the r-th call of startAnalysis:
\* finally { this.isAnalyzing = false; ... }
Finally(dash, r) ==
    [dash EXCEPT !.isAnalyzing = FALSE,
                 !.runs = SubSeq(@, 1, r - 1) \o SubSeq(@, r + 1, Len(@))]

\* startAnalysis from its guard to its first await: of gmailAuth.signIn()
\* when the user is not signed in, and else of fetchEmailsByPreset()
Started(dash) ==
    [dash EXCEPT !.isAnalyzing = TRUE,
                 !.runs = Append(@, [pc |-> IF isUserSignedIn(gmailAuth)
                                            THEN "fetch" ELSE "signIn"])]

\* a call of startAnalysis
startAnalysis ==
    /\ Len(dashboard.runs) < MaxRuns
    /\ IF Analyzing(dashboard)
       THEN /\ last' = [op |-> "startAnalysis", status |-> "ignored"]
            /\ UNCHANGED dashboard
       ELSE /\ last' = [op |-> "startAnalysis", status |-> "started"]
            /\ dashboard' = Started(dashboard)
    /\ UNCHANGED <<analysisCache, analysisInProgress, pending, input, subj, norm,
                   gmailAuth, gmailAPI>>

\* a call of refreshData: the caches are cleared and startAnalysis is called,
\* unless an analysis is under way
refreshData ==
    /\ Len(dashboard.runs) < MaxRuns
    /\ IF Analyzing(dashboard)
       THEN /\ last' = [op |-> "refreshData", status |-> "ignored"]
            /\ UNCHANGED <<dashboard, analysisCache>>
       ELSE /\ analysisCache' = EmptyCache
            /\ IF Analyzing(dashboard)
               THEN /\ last' = [op |-> "refreshData", status |-> "ignored"]
                    /\ UNCHANGED dashboard
               ELSE /\ last' = [op |-> "refreshData", status |-> "started"]
                    /\ dashboard' = Started(dashboard)
    /\ UNCHANGED <<analysisInProgress, pending, input, subj, norm,
                   gmailAuth, gmailAPI>>

\* the signIn that the r-th startAnalysis awaits is over, the user signed in
\* or not: signIn returns false where it fails.  fetchEmailsByPreset is called.
SignInSettled(r, granted) ==
    /\ r \in 1..Len(dashboard.runs)
    /\ dashboard.runs[r].pc = "signIn"
    /\ gmailAuth' = IF granted THEN SignedInAuth ELSE gmailAuth
    /\ dashboard' = [dashboard EXCEPT !.runs[r].pc = "fetch"]
    /\ last' = [op |-> "startAnalysis", status |-> "fetching"]
    /\ UNCHANGED <<analysisCache, analysisInProgress, pending, input, subj, norm,
                   gmailAPI>>

\* the fetchEmailsByPreset that the r-th startAnalysis awaits throws: the
\* catch block and the finally block.  As the class GmailAPI stands it has no
\* fetchEmails, and the call of line 166 throws a TypeError.
FetchThrew(r) ==
    /\ r \in 1..Len(dashboard.runs)
    /\ dashboard.runs[r].pc = "fetch"
    /\ dashboard' = Finally(dashboard, r)
    /\ last' = [op |-> "startAnalysis", status |-> "failed"]
    /\ UNCHANGED <<analysisCache, analysisInProgress, pending, input, subj, norm,
                   gmailAuth, gmailAPI>>

\* the fetchEmailsByPreset that the r-th startAnalysis awaits returns emails,
\* as it does once GmailAPI.fetchEmails is there: with no email startAnalysis
\* returns, and else it calls generateReport, whose busy error goes to the
\* catch block
FetchReturned(r, emails) ==
    /\ r \in 1..Len(dashboard.runs)
    /\ dashboard.runs[r].pc = "fetch"
    /\ IF Len(emails) = 0
       THEN /\ dashboard' = Finally(dashboard, r)
            /\ last' = [op |-> "startAnalysis", status |-> "empty"]
            /\ UNCHANGED <<analysisCache, analysisInProgress, pending>>
       ELSE /\ generateReportCalled(emails)
            /\ dashboard' = IF Busy(analysisInProgress)
                            THEN Finally(dashboard, r)
                            ELSE [dashboard EXCEPT !.runs[r].pc = "report"]
    /\ UNCHANGED <<input, subj, norm, gmailAuth, gmailAPI>>

\* the generateReport that the r-th startAnalysis awaits settles: the report
\* it returns becomes currentAnalysis, an error goes to the catch block, and
\* the finally block ends the call
ReportSettled(r) ==
    /\ r \in 1..Len(dashboard.runs)
    /\ dashboard.runs[r].pc = "report"
    /\ pending # <<>>
    /\ generateReportSettled(1)
    /\ dashboard' =
          Finally(IF last'.status = "returned"
                  THEN [dashboard EXCEPT !.currentAnalysis = last'.report]
                  ELSE dashboard, r)
    /\ UNCHANGED <<input, subj, norm, gmailAuth, gmailAPI>>

\* ----------------------------------------------------------------- Spec
\* One EmailAnalyzer, called with email lists that differ from call to call.

MaxEmails == 3

\* the mailbox the runs draw from: a run analyses the emails fetched so far
Mailbox ==
    << Email(1, AtX("a"), HiSubject, 100),
       Email(2, AtX("a"), <<"F","w",":"," ">> \o HiSubject, 5 * KB * KB),
       Email(3, <<>>, RePrefix \o HiSubject, 50 * KB),
       Email(4, AtX("b"), HiSubject, 300),
       Email(5, AtX("b"), <<>>, 0) >>

Inputs == {SubSeq(Mailbox, 1, n) : n \in 0..Min(MaxEmails, Len(Mailbox))}

Init ==
    /\ analysisCache = EmptyCache
    /\ analysisInProgress = FALSE
    /\ pending = <<>>
    /\ last = NoCall
    /\ input = <<>>
    /\ subj = <<>>
    /\ norm = NoCall
    /\ gmailAuth = NewGmailAuth
    /\ gmailAPI = NoCall
    /\ dashboard = NewDashboard

Next ==
    \/ \E emails \in Inputs : generateReport(emails)
    \/ \E i \in 1..Len(pending) : generateReportSettle(i)
    \/ \E emails \in Inputs : CallAnalyzeBySender(emails)
    \/ \E emails \in Inputs : CallAnalyzeBySubject(emails)
    \/ clearCache

Spec == Init /\ [][Next]_vars

\* ------------------------------------------------------------- SpecRuns
\* One EmailAnalyzer on which the Dashboard runs its analyses: generateReport
\* on every click of Analyze (startAnalysis), one run after the other or
\* overlapping, and clearCache on a click of Refresh (refreshData).

NextRuns ==
    \/ \E emails \in Inputs : generateReport(emails)
    \/ \E i \in 1..Len(pending) : generateReportSettle(i)
    \/ clearCache

SpecRuns == Init /\ [][NextRuns]_vars

\* ------------------------------------------------------------ SpecGroup
\* One EmailAnalyzer and one email list, handed to each of the analyses.

MaxGroupLen == 3

GroupPool ==
    { Email(1, AtX("a"), HiSubject, 100),
      Email(2, AtX("a"), RePrefix \o HiSubject, 50 * KB),
      Email(3, AtX("b"), RePrefix \o RePrefix \o HiSubject, 500 * KB),
      Email(4, <<>>, <<>>, 0),
      Email(5, AtX("c"), SaleSubject, 5 * KB * KB) }

\* three emails of 100, 200 and 300 bytes from a@x.com and one of 50 bytes from
\* b@x.com, all with the subject "Hi"
Scenario2 ==
    << Email(1, AtX("a"), HiSubject, 100),
       Email(2, AtX("a"), HiSubject, 200),
       Email(3, AtX("a"), HiSubject, 300),
       Email(4, AtX("b"), HiSubject, 50) >>

RECURSIVE Digits(_)
Digits(n) ==
    IF n < 10 THEN <<DigitChars[n + 1]>>
    ELSE Digits(n \div 10) \o <<DigitChars[(n % 10) + 1]>>

\* one email more than analyzeBySubject keeps subjects, each with a subject of
\* its own
ManySubjects ==
    [i \in 1..(SubjectLimit + 1) |->
        Email(i, AtX("a"), <<"N","o","."," ">> \o Digits(i), 1)]

\* one sender more than topSenders keeps, each with one email, and a second
\* email from the last of them
ManySenders ==
    [i \in 1..(TopSendersLimit + 2) |->
        Email(i, Digits(Min(i, TopSendersLimit + 1)) \o Tail(AtX("a")),
              HiSubject, 1)]

GroupInputs ==
    SeqsUpTo(GroupPool, MaxGroupLen) \cup {Scenario2, ManySubjects, ManySenders}

\* a sender of 25 emails of 2MB on average with 3 distinct subjects, the same
\* with 10MB on average and 40 subjects, and the same without emails
Scenario6 ==
    [emails |-> [i \in 1..25 |-> Email(i, AtX("a"), HiSubject, 2 * MB)],
     avgSize |-> 2 * MB,
     subjectVariations |-> 3]

EfficiencySenders ==
    { Scenario6,
      [Scenario6 EXCEPT !.avgSize = 10 * MB, !.subjectVariations = 40],
      [Scenario6 EXCEPT !.emails = <<>>] }

InitGroup ==
    /\ input \in GroupInputs
    /\ analysisCache = EmptyCache
    /\ analysisInProgress = FALSE
    /\ pending = <<>>
    /\ last = NoCall
    /\ subj = <<>>
    /\ norm = NoCall
    /\ gmailAuth = NewGmailAuth
    /\ gmailAPI = NoCall
    /\ dashboard = NewDashboard

NextGroup ==
    \/ CallAnalyzeBySender(input)
    \/ CallAnalyzeBySubject(input)
    \/ CallAnalyzeSizeDistribution(input)
    \/ \E sender \in EfficiencySenders : CallCalculateSenderEfficiency(sender)
    \/ clearCache

SpecGroup == InitGroup /\ [][NextGroup]_vars

\* ------------------------------------------------------------- SpecNorm
\* The two normalisers applied to one subject, and then to their own result.

InitNorm ==
    /\ subj \in Subjects
    /\ norm = NoCall
    /\ analysisCache = EmptyCache
    /\ analysisInProgress = FALSE
    /\ pending = <<>>
    /\ last = NoCall
    /\ input = <<>>
    /\ gmailAuth = NewGmailAuth
    /\ gmailAPI = NoCall
    /\ dashboard = NewDashboard

Normalize ==
    /\ norm = NoCall
    /\ norm' = [op       |-> "normalizeSubject",
                analyzer |-> normalizeSubject(subj),
                parser   |-> EmailParser_normalizeSubject(subj)]
    /\ UNCHANGED <<analysisCache, analysisInProgress, pending, last, input, subj,
                 gmailAuth, gmailAPI, dashboard>>

\* each normaliser applied to what it returned
NormalizeAgain ==
    /\ norm.op = "normalizeSubject"
    /\ norm' = [op           |-> "normalizeAgain",
                analyzerOnce |-> norm.analyzer,
                parserOnce   |-> norm.parser,
                analyzer     |-> normalizeSubject(norm.analyzer),
                parser       |-> EmailParser_normalizeSubject(norm.parser)]
    /\ UNCHANGED <<analysisCache, analysisInProgress, pending, last, input, subj,
                 gmailAuth, gmailAPI, dashboard>>

NextNorm == Normalize \/ NormalizeAgain

SpecNorm == InitNorm /\ [][NextNorm]_vars

\* ------------------------------------------------------------ SpecParse
\* Raw messages handed to EmailParser, and the emails it makes of them handed
\* to analyzeBySender.

MaxLabels == 2
MaxHeaderLen == 2
MaxMessages == 2

Header(name, value) == [name |-> name, value |-> value]

FromHeader(value) == Header(<<"F","r","o","m">>, value)
SubjectHeader(value) == Header(<<"S","u","b","j","e","c","t">>, value)
DateHeader(value) == Header(<<"D","a","t","e">>, value)

RawMessage(id, headers, labels) ==
    [id |-> id,
     sizeEstimate |-> 100 * id,
     labelIds |-> labels,
     payload |-> [headers |-> headers]]

Address == AtX("a")
UpperAddress == <<"A","@","X",".","C","O","M">>
January2 == <<"1","9","7","0","-","0","1","-","0","2">>
NotADate == <<"n","o","t"," ","a"," ","d","a","t","e">>

LabelIds ==
    {"CATEGORY_PROMOTIONS", "CATEGORY_SOCIAL", "CATEGORY_UPDATES",
     "CATEGORY_FORUMS", "SPAM", "IMPORTANT", "UNREAD", "INBOX"}

FromChars == {"a", "@", ".", "<", ">", " "}

FromValues ==
    StringsUpTo(FromChars, MaxHeaderLen)
        \cup { Address, UpperAddress,
               <<"A","l"," ","<">> \o Address \o <<">">>,
               <<"\"","A","l","\""," ","<">> \o UpperAddress \o <<">">>,
               <<"<">> \o Address \o <<">">>,
               <<"B","o","b">>,
               <<"B","o","b"," ","<"," ",">">>,
               <<"t","o",":">> \o Address \o <<".","-",",">> \o AtX("b"),
               <<"a","@","b","@","x",".","c","-",".","d","e",".">> }

SubjectChars2 == {"H", " ", "\t"}

SubjectValues ==
    StringsUpTo(SubjectChars2, MaxHeaderLen)
        \cup { HiSubject, <<" ","H","i"," ","\t"," ","y","o","u"," ">> }

DateValues ==
    { <<>>, NotADate, January2,
      <<"1","9","7","0","-","0","1","-","0","1">>,
      <<"1","9","7","0","-","0","1","-","2","4">>,
      <<"1","9","7","0","-","0","1","-","0","0">> }

WithFrom == {RawMessage(1, <<FromHeader(v), SubjectHeader(HiSubject)>>, <<>>) :
                v \in FromValues}
WithSubject == {RawMessage(1, <<FromHeader(Address), SubjectHeader(v)>>, <<>>) :
                v \in SubjectValues}
WithDate == {RawMessage(1, <<FromHeader(Address), DateHeader(v)>>, <<>>) :
                v \in DateValues}
WithLabels == {RawMessage(1, <<FromHeader(Address)>>, labels) :
                labels \in SeqsUpTo(LabelIds, MaxLabels)}

\* messages that lack a part: the message itself, its payload, its headers,
\* its labels, the name or the value of a header
Lacking ==
    { Null,
      [id |-> 1],
      [id |-> 1, payload |-> [mimeType |-> "text/plain"]],
      [id |-> 1, payload |-> [headers |-> <<>>]],
      [id |-> 1, payload |-> [headers |-> <<[value |-> Address]>>]],
      [id |-> 1, payload |-> [headers |-> <<FromHeader(Address),
                                            [name |-> <<"F","R","O","M">>]>>]],
      [id |-> 1, payload |-> [headers |-> <<FromHeader(Address),
                                            Header(<<"F","R","O","M">>,
                                                   AtX("b"))>>]] }

RawMessages == WithFrom \cup WithSubject \cup WithDate \cup WithLabels \cup Lacking

\* the messages of the lists: two whose addresses differ in case only, two
\* without an address, one with a date that is not one, one without a payload
\* and one with a header without a name
MessagePool ==
    { RawMessage(1, <<FromHeader(Address), DateHeader(January2)>>, <<>>),
      RawMessage(2, <<FromHeader(UpperAddress), DateHeader(NotADate)>>, <<>>),
      RawMessage(3, <<SubjectHeader(HiSubject)>>, <<>>),
      RawMessage(4, <<FromHeader(<<"<"," ",">">>)>>, <<>>),
      [id |-> 5],
      [id |-> 6, payload |-> [headers |-> <<[value |-> Address]>>]] }

RawInputs ==
    {<<m>> : m \in RawMessages} \cup SeqsUpTo(MessagePool, MaxMessages)

InitParse ==
    /\ input \in RawInputs
    /\ analysisCache = EmptyCache
    /\ analysisInProgress = FALSE
    /\ pending = <<>>
    /\ last = NoCall
    /\ subj = <<>>
    /\ norm = NoCall
    /\ gmailAuth = NewGmailAuth
    /\ gmailAPI = NoCall
    /\ dashboard = NewDashboard

\* a call of EmailParser.parseMessage
CallParseMessage(message) ==
    /\ last' = [op |-> "parseMessage", message |-> message,
                status |-> "returned", result |-> parseMessage(message)]
    /\ UNCHANGED <<analysisCache, analysisInProgress, pending, input, subj, norm,
                 gmailAuth, gmailAPI, dashboard>>

\* a call of EmailParser.parseMessages
CallParseMessages(messages) ==
    /\ last' = [op |-> "parseMessages", messages |-> messages,
                status |-> "returned", result |-> parseMessages(messages)]
    /\ UNCHANGED <<analysisCache, analysisInProgress, pending, input, subj, norm,
                 gmailAuth, gmailAPI, dashboard>>

\* a call of EmailParser.groupBySender
CallGroupBySender(emails) ==
    /\ last' = [op |-> "groupBySender", emails |-> emails,
                status |-> "returned", result |-> groupBySender(emails)]
    /\ UNCHANGED <<analysisCache, analysisInProgress, pending, input, subj, norm,
                 gmailAuth, gmailAPI, dashboard>>

\* a call of EmailParser.groupBySubject
CallGroupBySubject(emails) ==
    /\ last' = [op |-> "groupBySubject", emails |-> emails,
                status |-> "returned", result |-> groupBySubject(emails)]
    /\ UNCHANGED <<analysisCache, analysisInProgress, pending, input, subj, norm,
                 gmailAuth, gmailAPI, dashboard>>

NextParse ==
    \/ \E i \in 1..Len(input) : CallParseMessage(input[i])
    \/ CallParseMessages(input)
    \/ last.op = "parseMessages" /\ CallAnalyzeBySender(last.result)
    \/ CallGroupBySender(parseMessages(input))
    \/ CallGroupBySubject(parseMessages(input))

SpecParse == InitParse /\ [][NextParse]_vars

\* --------------------------------------------------------- SpecInsights
\* One EmailAnalyzer and one email list, on which generateReport is called:
\* the call is the one place in the code that calls generateInsights.

MaxRepeats == 7

\* n emails with the subject "Hi", from a@x.com
Repeats(n) == [i \in 1..n |-> Email(i, AtX("a"), HiSubject, 1)]

\* 25 subject groups, of which one has 6 emails and the others have one
Scenario5 ==
    [i \in 1..30 |->
        IF i <= 6 THEN Email(i, AtX("a"), HiSubject, 1)
        ELSE Email(i, AtX("a"), <<"N","o","."," ">> \o Digits(i), 1)]

\* the same with 5 emails in the largest group
Scenario5Below == Tail(Scenario5)

InsightInputs ==
    {Repeats(n) : n \in 0..MaxRepeats} \cup {Scenario5, Scenario5Below}

InitInsights ==
    /\ input \in InsightInputs
    /\ analysisCache = EmptyCache
    /\ analysisInProgress = FALSE
    /\ pending = <<>>
    /\ last = NoCall
    /\ subj = <<>>
    /\ norm = NoCall
    /\ gmailAuth = NewGmailAuth
    /\ gmailAPI = NoCall
    /\ dashboard = NewDashboard

NextInsights ==
    \/ generateReport(input)
    \/ \E i \in 1..Len(pending) : generateReportSettle(i)
    \/ CallAnalyzeBySubject(input)
    \/ clearCache

SpecInsights == InitInsights /\ [][NextInsights]_vars

\* -------------------------------------------------------------- SpecAuth
\* One GmailAuth, on which initialize, signIn and signOut are called in any
\* order, one call beginning before another has returned or after.

NextAuth ==
    \/ \E succeeds \in BOOLEAN : initialize(succeeds)
    \/ signIn
    \/ \E response \in TokenResponses : tokenCallback(response)
    \/ signOut
    \/ \E fulfilled \in BOOLEAN : revokeSettled(fulfilled)

SpecAuth == Init /\ [][NextAuth]_vars

\* ----------------------------------------------------------- SpecSession
\* The GmailAuth of the App and the EmailAnalyzer of its Dashboard: the user
\* signs in and out, and analyses are called on the analyzer with the emails
\* of the moment.

NextSession ==
    \/ \E succeeds \in BOOLEAN : initialize(succeeds)
    \/ signIn
    \/ \E response \in TokenResponses : tokenCallback(response)
    \/ signOut
    \/ \E fulfilled \in BOOLEAN : revokeSettled(fulfilled)
    \/ \E emails \in Inputs : CallAnalyzeBySender(emails)
    \/ \E emails \in Inputs : CallAnalyzeBySubject(emails)
    \/ \E emails \in Inputs : generateReport(emails)
    \/ \E i \in 1..Len(pending) : generateReportSettle(i)

SpecSession == Init /\ [][NextSession]_vars

\* ------------------------------------------------------------- SpecCall
\* Calls of GmailAPI._makeAPICall, one after the other, each answered by
\* Google as Google chooses.

NextCall ==
    \/ \E method \in {ListMethod, GetMethod} : _makeAPICall(method)
    \/ \E response \in {[result |-> r] : r \in CallResults} \cup ApiErrors :
          CallResponded(response)
    \/ CallDelayed

SpecCall == Init /\ [][NextCall]_vars

\* Every request is answered, with a response or an error, and every timer
\* of setTimeout fires.
SpecCallFair ==
    /\ SpecCall
    /\ WF_vars(\E response \in {[result |-> r] : r \in CallResults} \cup ApiErrors :
                  CallResponded(response))
    /\ WF_vars(CallDelayed)

\* ------------------------------------------------------------ SpecPages
\* A call of GmailAPI.getAllMessages on a mailbox of Google's, by a user who
\* is signed in or is not.  getAllMessages writes no field of the GmailAPI
\* object, so that one call tells of all.

MaxPages == 2

BoolSeqs(n) == UNION {[1..k -> BOOLEAN] : k \in 1..n}

Mailboxes == {[has |-> q, endless |-> e] : q \in BoolSeqs(MaxPages), e \in BOOLEAN}

PageOptions ==
    {[query |-> ""]} \cup {[maxPages |-> n] : n \in 0..(MaxPages + 1)}

\* what a list request can be answered with: the page of the mailbox that
\* the page token asks for, or an error
ListResponses ==
    IF gmailAPI.op = "getAllMessages"
    THEN {[result |-> ServerPage(input, gmailAPI.nextPageToken)],
          RateLimited, [status |-> 500]}
    ELSE {}

InitPages ==
    /\ input \in Mailboxes
    /\ gmailAuth \in {NewGmailAuth, SignedInAuth}
    /\ analysisCache = EmptyCache
    /\ analysisInProgress = FALSE
    /\ pending = <<>>
    /\ last = NoCall
    /\ subj = <<>>
    /\ norm = NoCall
    /\ gmailAPI = NoCall
    /\ dashboard = NewDashboard

NextPages ==
    \/ last = NoCall /\ \E options \in PageOptions : getAllMessages(options)
    \/ \E response \in ListResponses : ListResponded(response)
    \/ ListRetried
    \/ PageDelayed

SpecPages == InitPages /\ [][NextPages]_vars

\* Every request is answered and every timer fires.
SpecPagesFair ==
    /\ SpecPages
    /\ WF_vars(\E response \in ListResponses : ListResponded(response))
    /\ WF_vars(ListRetried)
    /\ WF_vars(PageDelayed)

\* ---------------------------------------------------------- SpecDetails
\* A call of GmailAPI.getMessageDetails on the ids of a list, by a user who is
\* signed in or is not; each message is fetched or fails.  getMessageDetails
\* writes no field of the GmailAPI object.

MaxIds == 6

InitDetails ==
    /\ input \in {[k \in 1..n |-> k] : n \in 0..MaxIds}
    /\ gmailAuth \in {NewGmailAuth, SignedInAuth}
    /\ analysisCache = EmptyCache
    /\ analysisInProgress = FALSE
    /\ pending = <<>>
    /\ last = NoCall
    /\ subj = <<>>
    /\ norm = NoCall
    /\ gmailAPI = NoCall
    /\ dashboard = NewDashboard

NextDetails ==
    \/ last = NoCall /\ \E onProgress \in BOOLEAN :
                           getMessageDetails(input, onProgress)
    \/ \E k \in 1..MAX_CONCURRENT_REQUESTS, returns \in BOOLEAN :
          GetSettled(k, returns)
    \/ BatchCompleted
    \/ BatchDelayed

SpecDetails == InitDetails /\ [][NextDetails]_vars

\* ------------------------------------------------------------- SpecDash
\* The Dashboard: clicks on Analyze and Refresh at any time, by a user who is
\* signed in or is not, and the awaits of startAnalysis ending in any order.

InitDash ==
    /\ gmailAuth \in {NewGmailAuth, SignedInAuth}
    /\ analysisCache = EmptyCache
    /\ analysisInProgress = FALSE
    /\ pending = <<>>
    /\ last = NoCall
    /\ input = <<>>
    /\ subj = <<>>
    /\ norm = NoCall
    /\ gmailAPI = NoCall
    /\ dashboard = NewDashboard

NextDash ==
    \/ startAnalysis
    \/ refreshData
    \/ \E r \in 1..MaxRuns, granted \in BOOLEAN : SignInSettled(r, granted)
    \/ \E r \in 1..MaxRuns : FetchThrew(r)
    \/ \E r \in 1..MaxRuns, emails \in Inputs : FetchReturned(r, emails)
    \/ \E r \in 1..MaxRuns : ReportSettled(r)

SpecDash == InitDash /\ [][NextDash]_vars

\* ================================================================ claims

\* the number of places of the sequence q that hold x
Occurrences(x, q) == Cardinality({i \in 1..Len(q) : q[i] = x})

RECURSIVE Members(_)
\* the member emails of a sequence of groups, group after group
Members(groups) ==
    IF groups = <<>> THEN <<>>
    ELSE IF Len(groups) = 1 THEN groups[1].emails
    ELSE Members(FirstHalf(groups)) \o Members(SecondHalf(groups))

\* the groups partition the emails: the counts add up to the number of emails,
\* and every email is a member of exactly one group, as often as it is in the
\* list
IsPartition(groups, emails) ==
    /\ SumCount(groups) = Len(emails)
    /\ \A i \in 1..Len(groups) : groups[i].count = Len(groups[i].emails)
    /\ Len(Members(groups)) = Len(emails)
    /\ \A k \in 1..Len(emails) :
        /\ Occurrences(emails[k], Members(groups)) = Occurrences(emails[k], emails)
        /\ Cardinality({i \in 1..Len(groups) :
                            Occurrences(emails[k], groups[i].emails) > 0}) = 1

\* C1: a generateReport invoked while an earlier invocation has not settled
\* fails with the busy error, and changes neither the pending invocation, nor
\* the cache, nor the flag.
C1_BusyRejected ==
    [][(/\ pending # <<>>
        /\ last'.op = "generateReport"
        /\ last'.status \in {"pending", "rejected"})
       => (/\ last'.status = "rejected"
           /\ last'.error = BusyError
           /\ pending' = pending
           /\ analysisCache' = analysisCache
           /\ analysisInProgress' = analysisInProgress)]_vars

C1_Witness ==
    /\ Len(pending) = 1
    /\ last.op = "generateReport"
    /\ last.status = "rejected"
    /\ last.emails # pending[1].emails

\* C2: once a generateReport that passed the busy check has settled, by a
\* return or by a throw, analysisInProgress is false; with no invocation
\* pending the flag is false, so a generateReport is rejected as busy only
\* while one is pending.
C2_FlagReset ==
    /\ (last.op = "generateReport" /\ last.status \in {"returned", "threw"})
            => ~analysisInProgress
    /\ pending = <<>> => ~analysisInProgress
    /\ (last.op = "generateReport" /\ last.status = "rejected") => pending # <<>>

C2_Witness ==
    /\ last.op = "generateReport"
    /\ last.status = "threw"
    /\ pending = <<>>
    /\ ~analysisInProgress

\* C3: generateReport on an empty email list returns a report with
\* overview.totalEmails = 0 and empty senders, subjects and insights; it does
\* not throw.
C3_EmptyReport ==
    (/\ last.op = "generateReport"
     /\ last.emails = <<>>
     /\ last.status \in {"returned", "threw"})
    => /\ last.status = "returned"
       /\ last.report.overview.totalEmails = 0
       /\ last.report.senders.senders = <<>>
       /\ last.report.subjects.subjects = <<>>
       /\ last.report.insights = <<>>

\* C4: the sender and subject analyses of every run of generateReport are those
\* of the run's own email list: their totalEmails is the length of that list.
C4_FreshPerRun ==
    \A i \in 1..Len(pending) :
        /\ pending[i].senderAnalysis.totalEmails = Len(pending[i].emails)
        /\ pending[i].subjectAnalysis.totalEmails = Len(pending[i].emails)

\* C5: an entry of the cache is removed only by clearCache and never replaced;
\* while the entry of a kind exists a call of that kind on a non-empty list
\* returns the entry, whatever the list, and leaves the cache alone; when it
\* does not exist, the call computes the result of its own list and stores it.
C5_CacheUntilCleared ==
    [][/\ \A k \in DOMAIN analysisCache :
            \/ k \in DOMAIN analysisCache' /\ analysisCache'[k] = analysisCache[k]
            \/ last'.op = "clearCache" /\ analysisCache' = EmptyCache
       /\ (last'.op = "analyzeBySender" /\ last'.emails # <<>>)
            => IF SenderCacheKey \in DOMAIN analysisCache
               THEN /\ last'.result = analysisCache[SenderCacheKey]
                    /\ analysisCache' = analysisCache
               ELSE /\ last'.result = SenderAnalysisOf(last'.emails)
                    /\ analysisCache' =
                        CacheSet(analysisCache, SenderCacheKey, last'.result)
       /\ (last'.op = "analyzeBySubject" /\ last'.emails # <<>>)
            => IF SubjectCacheKey \in DOMAIN analysisCache
               THEN /\ last'.result = analysisCache[SubjectCacheKey]
                    /\ analysisCache' = analysisCache
               ELSE /\ last'.result = SubjectAnalysisOf(last'.emails)
                    /\ analysisCache' =
                        CacheSet(analysisCache, SubjectCacheKey, last'.result)
      ]_vars

C5_Witness ==
    /\ last.op = "analyzeBySender"
    /\ last.fromCache
    /\ last.emails # <<>>
    /\ last.result.totalEmails # Len(last.emails)

\* C6 as claimed: for every non-empty email list the sender groups analyzeBySender
\* returns partition the list.
C6_SenderPartitionAlways ==
    (last.op = "analyzeBySender" /\ last.emails # <<>>)
        => IsPartition(last.result.senders, last.emails)

\* C6, amended: for every non-empty email list on which analyzeBySender computes
\* its result (the cache holds no sender analysis), the sender groups it returns
\* partition the list, the emails without a sender address included.
C6_SenderPartitionComputed ==
    (last.op = "analyzeBySender" /\ last.emails # <<>> /\ ~last.fromCache)
        => IsPartition(last.result.senders, last.emails)

C6_Witness ==
    /\ last.op = "analyzeBySender"
    /\ ~last.fromCache
    /\ \E i \in 1..Len(last.result.senders) : last.result.senders[i].count = 2
    /\ \E i \in 1..Len(last.result.senders) :
            last.result.senders[i].emails[1].senderEmail = <<>>

\* C7: for every non-empty email list the subject groups analyzeBySubject
\* returns partition the list, however many distinct normalized subjects there
\* are.
C7_SubjectPartition ==
    (last.op = "analyzeBySubject" /\ last.emails # <<>>)
        => IsPartition(last.result.subjects, last.emails)

\* C8: the totalSize of the buckets of analyzeSizeDistribution add up to the
\* sum of sizeEstimate over the emails, which is the totalSize reported.
C8_SizeConservation ==
    last.op = "analyzeSizeDistribution"
        => /\ SumTotalSize(last.result.distribution) = SumSizeEstimate(last.emails)
           /\ last.result.totalSize = SumSizeEstimate(last.emails)

C8_Witness ==
    /\ last.op = "analyzeSizeDistribution"
    /\ Len(last.emails) = 3
    /\ last.result.distribution[1].count = 1
    /\ last.result.distribution[2].count = 1
    /\ last.result.distribution[2].totalSize = 50 * KB
    /\ last.result.distribution[4].count = 1

\* C9: the totalSize of every sender group of analyzeBySender is the sum of
\* sizeEstimate over the group's emails: count 3 and totalSize 600 for the three
\* emails of a@x.com of scenario 2.
C9_SenderTotalSize ==
    (last.op = "analyzeBySender" /\ last.emails # <<>>)
        => /\ \A i \in 1..Len(last.result.senders) :
                last.result.senders[i].totalSize
                    = SumSizeEstimate(last.result.senders[i].emails)
           /\ last.emails = Scenario2
                => /\ last.result.senders[1].count = 3
                   /\ last.result.senders[1].totalSize = 600

\* C10: normalization strips every leading reply or forward prefix: none is
\* left at the start of the key, by either normaliser, and 'Re: Re: Sale!' has
\* the key 'sale!'.
C10_AllPrefixesStripped ==
    norm.op = "normalizeSubject"
        => /\ PrefixLen(norm.analyzer) = 0
           /\ PrefixLen(norm.parser) = 0
           /\ subj = ReReSale
                => /\ norm.analyzer = ToLowerCase(SaleSubject)
                   /\ norm.parser = ToLowerCase(SaleSubject)

\* C11: normalization is a fixed point: each normaliser, applied to what it
\* returned for a subject, returns the same string.
C11_NormalizeFixedPoint ==
    norm.op = "normalizeAgain"
        => /\ norm.analyzer = norm.analyzerOnce
           /\ norm.parser = norm.parserOnce

\* C12: the efficiency of every sender group analyzeBySender returns is a number
\* between 0 and 100.
C12_EfficiencyBounds ==
    (last.op = "analyzeBySender" /\ last.emails # <<>>)
        => \A i \in 1..Len(last.result.senders) :
            /\ ~last.result.senders[i].efficiency.nan
            /\ last.result.senders[i].efficiency.value \in 0..100

\* the labels in the order of their priority, and their categories
CategoryPriority ==
    << <<"CATEGORY_PROMOTIONS", "promotions">>,
       <<"CATEGORY_SOCIAL", "social">>,
       <<"CATEGORY_UPDATES", "updates">>,
       <<"CATEGORY_FORUMS", "forums">>,
       <<"SPAM", "spam">>,
       <<"IMPORTANT", "important">> >>

\* the labels of a raw message, as a set
LabelSet(message) ==
    IF "labelIds" \in DOMAIN message
    THEN {message.labelIds[i] : i \in 1..Len(message.labelIds)}
    ELSE {}

\* C13: the category of a parsed message is the category of the first label, in
\* the order of priority, that is among the message's labels, and primary when
\* none is: it is one of the seven categories, and depends on nothing but the
\* set of labels.
C13_CategoryByPriority ==
    (last.op = "parseMessage" /\ ~IsNull(last.result))
        => LET present == {i \in 1..Len(CategoryPriority) :
                            CategoryPriority[i][1] \in LabelSet(last.message)}
           IN  /\ last.result.category \in
                    {CategoryPriority[i][2] : i \in 1..Len(CategoryPriority)}
                        \cup {"primary"}
               /\ last.result.category =
                    IF present = {} THEN "primary"
                    ELSE CategoryPriority[SetMin(present)][2]

C13_Witness ==
    /\ last.op = "parseMessage"
    /\ ~IsNull(last.result)
    /\ last.result.labels = <<"CATEGORY_SOCIAL", "CATEGORY_PROMOTIONS">>
    /\ last.result.category = "promotions"

\* the indices of the groups that hold an email with the given id
GroupsOfId(groups, id) ==
    {i \in 1..Len(groups) :
        \E k \in 1..Len(groups[i].emails) : groups[i].emails[k].id = id}

\* C16: in the sender groups of parsed emails, every email whose senderEmail is
\* empty is a member of the group with the key 'unknown@unknown.com', every other
\* email of the group whose key is its senderEmail in lower case, and the
\* emails of two messages whose From addresses differ in case only (a@x.com and
\* A@X.COM, messages 1 and 2) are in the same group.
C16_UnknownBucket ==
    (last.op = "analyzeBySender" /\ last.emails # <<>>)
        => /\ \A k \in 1..Len(last.emails) :
                LET email == last.emails[k]
                    key == IF email.senderEmail = <<>> THEN UnknownSenderKey
                           ELSE ToLowerCase(email.senderEmail)
                IN  \E i \in 1..Len(last.result.senders) :
                        /\ last.result.senders[i].id = key
                        /\ Occurrences(email, last.result.senders[i].emails) > 0
           /\ GroupsOfId(last.result.senders, 1) # {}
                /\ GroupsOfId(last.result.senders, 2) # {}
                => GroupsOfId(last.result.senders, 1)
                        = GroupsOfId(last.result.senders, 2)

\* the header of the given lower-case name of a raw message that has a
\* payload, as parseMessage reads it
HeaderIn(message, name) ==
    HeaderOf(_extractHeaders(IF "headers" \in DOMAIN message.payload
                             THEN message.payload.headers ELSE <<>>).map,
             name)

\* C17: a message whose date header is missing, empty, or not a date is parsed
\* to an Email, not to null, whose timestamp is the integer 0.
C17_BadDateIsZero ==
    (/\ last.op = "parseMessage"
     /\ ~IsNull(last.message)
     /\ "payload" \in DOMAIN last.message
     /\ ~_extractHeaders(IF "headers" \in DOMAIN last.message.payload
                         THEN last.message.payload.headers ELSE <<>>).threw)
        => LET date == HeaderIn(last.message, DateName)
           IN  (\/ Falsy(date)
                \/ DateTime(date.value).nan)
                    => /\ ~IsNull(last.result)
                       /\ last.result.timestamp = Num(0)

\* the characters of s that are not whitespace
Visible(s) == SelectSeq(s, LAMBDA c : c \notin Whitespace)

\* C18: the subject of every parsed Email is not empty: it is '(No Subject)'
\* when the subject header is missing, empty, or whitespace only; otherwise it is
\* the header with every run of whitespace made one space and none left at
\* either end.  Its senderEmail is a string.
C18_SubjectNeverEmpty ==
    (last.op = "parseMessage" /\ ~IsNull(last.result))
        => LET header == HeaderIn(last.message, SubjectName)
               subject == last.result.subject
           IN  /\ subject # <<>>
               /\ IF Falsy(header) \/ Visible(header.value) = <<>>
                  THEN subject = NoSubjectUpper
                  ELSE /\ Visible(subject) = Visible(header.value)
                       /\ subject[1] \notin Whitespace
                       /\ subject[Len(subject)] \notin Whitespace
                       /\ \A i \in 1..Len(subject) :
                            subject[i] \in Whitespace
                                => /\ subject[i] = " "
                                   /\ subject[i + 1] \notin Whitespace
               /\ last.result.senderEmail \in Seq(AddressChars \cup FromChars)

\* the messages, out of a list, that are not null and have a payload
WithPayload(messages) ==
    SelectSeq(messages, LAMBDA m : ~IsNull(m) /\ "payload" \in DOMAIN m)

\* C19: parseMessage does not throw; it returns null exactly for a message that
\* is null or has no payload, and an Email for every message with a payload,
\* whatever its headers; parseMessages returns one Email for each message with a
\* payload, in the order of the messages.
C19_NullOnlyWithoutPayload ==
    /\ last.op = "parseMessage"
        => /\ last.status = "returned"
           /\ IsNull(last.result)
                <=> (IsNull(last.message) \/ "payload" \notin DOMAIN last.message)
    /\ last.op = "parseMessages"
        => /\ last.status = "returned"
           /\ Len(last.result) = Len(WithPayload(last.messages))
           /\ \A n \in 1..Len(last.result) :
                /\ ~IsNull(last.result[n])
                /\ last.result[n].id = WithPayload(last.messages)[n].id

\* the key, count and totalSize of the groups, in their order
GroupSummary(groups) ==
    [i \in 1..Len(groups) |->
        <<groups[i].id, groups[i].count, groups[i].totalSize>>]

\* the groups of a result of analyzeBySender or analyzeBySubject
GroupsOf(op, result) ==
    IF op = "analyzeBySender" THEN result.senders ELSE result.subjects

FirstSeen(group) == SetMin({k \in 1..Len(input) : input[k] = group.emails[1]})

\* the groups are in the order of their counts, the largest first, and groups
\* of one count in the order in which their first emails are in the input
SortedByCount(groups) ==
    \A i, j \in 1..Len(groups) :
        i < j => \/ groups[i].count > groups[j].count
                 \/ /\ groups[i].count = groups[j].count
                    /\ FirstSeen(groups[i]) < FirstSeen(groups[j])

\* C15: the sender groups and the subject groups are sorted by count, the
\* largest first, groups of equal count in the order in which they were first
\* seen in the input; topSenders is the first 20 sender groups, or all of them
\* when there are fewer.
C15_SortedStable ==
    /\ (last.op = "analyzeBySender" /\ last.emails # <<>>)
        => /\ SortedByCount(last.result.senders)
           /\ Len(last.result.topSenders)
                = Min(TopSendersLimit, Len(last.result.senders))
           /\ \A i \in 1..Len(last.result.topSenders) :
                last.result.topSenders[i] = last.result.senders[i]
    /\ (last.op = "analyzeBySubject" /\ last.emails # <<>>)
        => SortedByCount(last.result.subjects)

C15_Witness ==
    /\ last.op = "analyzeBySender"
    /\ Len(last.result.senders) = TopSendersLimit + 1
    /\ Len(last.result.topSenders) = TopSendersLimit
    /\ last.result.senders[1].count = 2
    /\ last.result.senders[1].emails[1].id = TopSendersLimit + 1
    /\ last.result.senders[2].emails[1].id = 1

\* C20: analyzeSizeDistribution on a non-empty list returns the four buckets
\* from 0, 50KB, 500KB and 5MB; every email is in exactly one of them, the one
\* whose lower end is the largest that is not above the email's sizeEstimate, so
\* a size at a boundary is in the upper bucket; the counts add up to the number
\* of emails; the percentage of a bucket is its totalSize over the sum of all
\* sizes, and 0 when that sum is 0.
C20_SizeBuckets ==
    (last.op = "analyzeSizeDistribution" /\ last.emails # <<>>)
        => LET buckets == last.result.distribution
               lower == <<0, 50 * KB, 500 * KB, 5 * MB>>
               total == SumSizeEstimate(last.emails)
           IN  /\ Len(buckets) = 4
               /\ \A b \in 1..4 : buckets[b].min = lower[b]
               /\ \A k \in 1..Len(last.emails) :
                    LET email == last.emails[k]
                        home == SetMax({b \in 1..4 :
                                            lower[b] <= email.sizeEstimate})
                    IN  {b \in 1..4 : Occurrences(email, buckets[b].emails) > 0}
                            = {home}
               /\ \A b \in 1..4 : buckets[b].count = Len(buckets[b].emails)
               /\ SumCount(buckets) = Len(last.emails)
               /\ \A b \in 1..4 :
                    buckets[b].percentage =
                        IF total = 0 THEN [part |-> 0, of |-> 1]
                        ELSE [part |-> SumSizeEstimate(buckets[b].emails),
                              of |-> total]

C20_Witness ==
    /\ last.op = "analyzeSizeDistribution"
    /\ Len(last.emails) = 3
    /\ last.result.distribution[1].count = 0
    /\ \A b \in 2..4 : last.result.distribution[b].count = 1
    /\ last.result.distribution[2].emails[1].sizeEstimate = 50 * KB
    /\ last.result.distribution[3].emails[1].sizeEstimate = 500 * KB
    /\ last.result.distribution[4].emails[1].sizeEstimate = 5 * MB
    /\ last.result.distribution[4].percentage.part = 5 * MB

\* the subject groups of more than DuplicateThreshold emails
DuplicateGroups(subjects) ==
    {i \in 1..Len(subjects) : subjects[i].count > DuplicateThreshold}

\* the places of the insights of one type
InsightsOfType(insights, type) ==
    {i \in 1..Len(insights) : insights[i].type = type}

\* the place of a rule among the rules of generateInsights
RuleOrder(type) ==
    CASE type = "top_sender" -> 1
      [] type = "storage" -> 2
      [] type = "duplicates" -> 3

\* C21: the generateInsights of a generateReport emits exactly one duplicates
\* insight, of severity medium and naming the number of subject groups of more
\* than 5 emails, when there is such a group, and none when there is not; it
\* emits at most one insight of each type, in the order top_sender, storage,
\* duplicates.  (A call that throws emits no insight.)
C21_DuplicateInsight ==
    (/\ last.op = "generateReport"
     /\ last.status \in {"returned", "threw"})
    => LET duplicates ==
               DuplicateGroups(SubjectAnalysisOf(last.emails).subjects)
           insights ==
               IF last.status = "returned" THEN last.report.insights ELSE <<>>
           found == InsightsOfType(insights, "duplicates")
       IN  /\ Cardinality(found) = IF duplicates = {} THEN 0 ELSE 1
           /\ \A i \in found :
                /\ insights[i].severity = "medium"
                /\ insights[i].found = Cardinality(duplicates)
           /\ \A i, j \in 1..Len(insights) :
                i < j => RuleOrder(insights[i].type) < RuleOrder(insights[j].type)

\* C22: getAuthToken returns a token exactly when isUserSignedIn is true, and
\* null otherwise: null on a new instance, the token granted once a signIn has
\* returned true, and null once a signOut has returned true.
C22_TokenIffSignedIn ==
    /\ isUserSignedIn(gmailAuth) <=> getAuthToken(gmailAuth) \in Tokens
    /\ ~isUserSignedIn(gmailAuth) <=> IsNull(getAuthToken(gmailAuth))
    /\ last = NoCall => IsNull(getAuthToken(gmailAuth))
    /\ (last.op = "signIn" /\ last.status = "returned" /\ last.result)
        => getAuthToken(gmailAuth) = last.granted
    /\ (last.op = "signOut" /\ last.status = "returned" /\ last.result)
        => IsNull(getAuthToken(gmailAuth))

\* a signOut has returned true on an instance whose sign-in was answered and
\* which has asked for a token again
C22_Witness ==
    /\ last.op = "signOut"
    /\ last.status = "returned"
    /\ last.result
    /\ ~isUserSignedIn(gmailAuth)
    /\ ~IsNull(gmailAuth.tokenClient)
    /\ gmailAuth.tokenClient.callback = "settled"
    /\ gmailAuth.requests > 0

\* C23: the analysis that follows a sign-out is computed from its own emails:
\* once a signOut that revoked the user's token has returned true (the event
\* gmailAuthSignOut is handled and the sensitive data cleared), a call of
\* analyzeBySender or analyzeBySubject is not answered from the cache, and a
\* generateReport gets the analyses of its own email list.
C23_SignOutInvalidates ==
    [][(/\ last.op = "signOut"
        /\ last.status = "returned"
        /\ last.result
        /\ last.revoked)
       => /\ last'.op \in {"analyzeBySender", "analyzeBySubject"}
                => ~last'.fromCache
          /\ (last'.op = "generateReport" /\ last'.status = "pending")
                => LET p == pending'[Len(pending')]
                   IN  /\ p.senderAnalysis.totalEmails = Len(p.emails)
                       /\ p.subjectAnalysis.totalEmails = Len(p.emails)]_vars

\* C24: in the result of analyzeBySender the subjectVariations of every sender
\* group is the number of distinct normalized subjects of its members, and in
\* the result of analyzeBySubject the senderCount of every subject group is
\* the number of distinct sender keys of its members.
C24_DistinctCounts ==
    /\ (last.op = "analyzeBySender" /\ ~last.fromCache)
        => \A i \in 1..Len(last.result.senders) :
            LET group == last.result.senders[i]
            IN  group.subjectVariations =
                    Cardinality({normalizeSubject(group.emails[k].subject) :
                                    k \in 1..Len(group.emails)})
    /\ (last.op = "analyzeBySubject" /\ ~last.fromCache)
        => \A i \in 1..Len(last.result.subjects) :
            LET group == last.result.subjects[i]
            IN  group.senderCount =
                    Cardinality({SenderKeyOf(group.emails[k]) :
                                    k \in 1..Len(group.emails)})

\* the numbers a and b compare as a <= b; no comparison with NaN does
AtMost(a, b) == ~a.nan /\ ~b.nan /\ a.value <= b.value

\* the timestamps of the members of a group
TimestampsOf(group) == {group.emails[i].timestamp : i \in 1..Len(group.emails)}

\* the group of the same key in the Map built from the first k emails, in a
\* sequence of at most one group
GroupAfter(op, emails, k, key) ==
    SelectSeq(IF op = "groupBySender"
              THEN groupBySender(SubSeq(emails, 1, k))
              ELSE groupBySubject(SubSeq(emails, 1, k)),
              LAMBDA g : g.id = key)

\* C25: for every group of EmailParser.groupBySender and groupBySubject,
\* when all members are added dateRange.earliest is the minimum and
\* dateRange.latest the maximum of the members' timestamps, so that
\* earliest <= latest, and from one member added to the next earliest never
\* increases and latest never decreases
C25_DateRange ==
    (last.op \in {"groupBySender", "groupBySubject"}) =>
        \A i \in 1..Len(last.result) :
            LET g == last.result[i]
            IN  /\ g.dateRange.earliest \in TimestampsOf(g)
                /\ g.dateRange.latest \in TimestampsOf(g)
                /\ \A t \in TimestampsOf(g) :
                      /\ AtMost(g.dateRange.earliest, t)
                      /\ AtMost(t, g.dateRange.latest)
                /\ AtMost(g.dateRange.earliest, g.dateRange.latest)
                /\ \A k \in 1..(Len(last.emails) - 1) :
                      LET before == GroupAfter(last.op, last.emails, k, g.id)
                          after == GroupAfter(last.op, last.emails, k + 1, g.id)
                      IN  before # <<>> =>
                             /\ AtMost(after[1].dateRange.earliest,
                                       before[1].dateRange.earliest)
                             /\ AtMost(before[1].dateRange.latest,
                                       after[1].dateRange.latest)

\* what C27 says of one call of _makeAPICall, under way or over
BackoffOf(call) ==
    LET n == Len(call.responses)
    IN  /\ call.delays = SubSeq(<<1000, 2000, 4000>>, 1, Len(call.delays))
        /\ \A i \in 1..(n - 1) : call.responses[i] = RateLimited
        /\ call.pc = "request" => n <= 3 /\ Len(call.delays) = n
        /\ call.pc = "delay" =>
              /\ n <= 3 /\ Len(call.delays) = n
              /\ call.responses[n] = RateLimited
        /\ call.pc = "returned" =>
              /\ n <= 4 /\ Len(call.delays) = n - 1
              /\ ~IsError(call.responses[n])
              /\ call.result = call.responses[n].result
        /\ call.pc = "threw" =>
              /\ n <= 4 /\ Len(call.delays) = n - 1
              /\ IsError(call.responses[n])
              /\ call.error = call.responses[n]
              /\ call.responses[n] = RateLimited => n = 4

\* C27: _makeAPICall makes a further request only after an error of status
\* 429 and after a delay of 1000, 2000 and 4000 ms before the second, third
\* and fourth request; there is no fifth; it returns the result of the first
\* response that has one, throws the error of the fourth request, and throws
\* an error of another kind at once; and every call returns or throws.
C27_Backoff ==
    /\ [](/\ gmailAPI.op = "_makeAPICall" => BackoffOf(gmailAPI.call)
          /\ last.op = "_makeAPICall" => BackoffOf(last.call))
    /\ \A method \in {ListMethod, GetMethod} :
          (gmailAPI.op = "_makeAPICall" /\ gmailAPI.call.method = method)
             ~> (gmailAPI = NoCall /\ last.op = "_makeAPICall"
                 /\ last.call.method = method)

\* a call that returns from its fourth request, and one that throws the
\* error of its fourth
C27_Witness ==
    /\ last.op = "_makeAPICall"
    /\ last.call.delays = <<1000, 2000, 4000>>
    /\ last.status = "threw"
    /\ gmailAPI.op = "_makeAPICall"
    /\ gmailAPI.call.pc = "delay"
    /\ gmailAPI.call.retryCount = 2

\* the messages of pages, one page after the other
RECURSIVE MessagesOf(_)
MessagesOf(pages) ==
    IF pages = <<>> THEN <<>>
    ELSE LET page == pages[Len(pages)]
             before == MessagesOf(SubSeq(pages, 1, Len(pages) - 1))
         IN  IF "messages" \in DOMAIN page THEN before \o page.messages
             ELSE before

\* the most list calls that C29 allows a call with these options
PageLimit(options) ==
    IF "maxPages" \in DOMAIN options /\ options.maxPages # 0
    THEN options.maxPages
    ELSE 50

\* what C29 says of the list calls of a getAllMessages that is over: none when
\* the user is not signed in, and else at least one, at most the limit, none
\* after a page without a token, and a further one after every page with a
\* token while the limit and no error forbid it
ListCallsOf(call) ==
    IF ~call.signedIn
    THEN call.calls = 0 /\ call.result = <<>>
    ELSE /\ call.calls >= 1
         /\ call.calls <= PageLimit(call.options)
         /\ \A k \in 1..(Len(call.pages) - 1) :
               "nextPageToken" \in DOMAIN call.pages[k]
         /\ ~call.failed =>
               /\ Len(call.pages) = call.calls
               /\ \/ "nextPageToken" \notin DOMAIN call.pages[call.calls]
                  \/ call.calls = PageLimit(call.options)

\* C29 as it was stated: a getAllMessages that is over has made the list
\* calls that ListCallsOf describes and has returned the messages of all the
\* pages it fetched, in their order
C29_AllPages ==
    /\ gmailAPI.op = "getAllMessages" =>
          gmailAPI.calls <= PageLimit(gmailAPI.options)
    /\ last.op = "getAllMessages" =>
          /\ ListCallsOf(last)
          /\ last.result = MessagesOf(last.pages)

\* C29: getAllMessages ends, whatever the mailbox; it makes no list call and
\* returns [] when the user is not signed in, and else makes at least one list
\* call and at most maxPages (50 when maxPages is absent or 0), none after a
\* page without nextPageToken; it returns the messages of all the pages in
\* their order when no list call throws, and [] when one does.
C29_PagesOrNothing ==
    /\ [](/\ gmailAPI.op = "getAllMessages" =>
                gmailAPI.calls <= PageLimit(gmailAPI.options)
          /\ last.op = "getAllMessages" =>
                /\ ListCallsOf(last)
                /\ last.result = IF last.failed THEN <<>>
                                 ELSE MessagesOf(last.pages))
    /\ (gmailAPI.op = "getAllMessages") ~> (last.op = "getAllMessages")

\* a mailbox whose every page has a token, read with maxPages 0: fifty list
\* calls and the messages of fifty pages
C29_Witness ==
    /\ last.op = "getAllMessages"
    /\ input.endless
    /\ "maxPages" \in DOMAIN last.options
    /\ last.options.maxPages = 0
    /\ last.calls = 50
    /\ Len(last.result) = 100
    /\ ~last.failed

\* what C26 says of the calls of the progress callback made so far, by a call
\* of getMessageDetails on n ids that has completed some batches
ProgressSequence(progress, n, batches) ==
    /\ Len(progress) = batches
    /\ \A j \in 1..Len(progress) :
          /\ DOMAIN progress[j] = {"processed", "total", "percentage"}
          /\ progress[j].processed \in Nat
          /\ progress[j].percentage \in 0..100
          /\ progress[j].total = n
          /\ 0 < progress[j].processed
          /\ progress[j].processed <= progress[j].total
    /\ \A j \in 1..(Len(progress) - 1) :
          progress[j].processed < progress[j + 1].processed

\* C26: a call of getMessageDetails with a progress callback, by a signed-in
\* user on n > 0 ids, calls the callback once for every batch completed, with
\* the fields processed, total and percentage, total = n, 0 < processed <=
\* total, processed greater from call to call and percentage in 0..100; when
\* it is over the last call had processed = total and percentage = 100; and
\* it returns the messages fetched, in the order of their ids, without those
\* whose fetch failed, whose batches count like any other.
C26_Progress ==
    /\ (gmailAPI.op = "getMessageDetails" /\ gmailAPI.onProgress) =>
          ProgressSequence(gmailAPI.progress, Len(gmailAPI.messageIds),
                           gmailAPI.batches)
    /\ (/\ last.op = "getMessageDetails" /\ last.signedIn
        /\ Len(last.messageIds) > 0) =>
          LET n == Len(last.messageIds)
          IN  /\ last.batches = (n + 4) \div 5
              /\ last.result =
                    SelectSeq([k \in 1..n |-> [id |-> last.messageIds[k]]],
                              LAMBDA m : m.id \notin last.failedIds)
              /\ last.onProgress =>
                    /\ ProgressSequence(last.progress, n, last.batches)
                    /\ last.progress[Len(last.progress)].processed = n
                    /\ last.progress[Len(last.progress)].percentage = 100

\* a call over six ids of which one of the first batch and the one of the
\* second failed to be fetched: two calls of the callback, four messages
C26_Witness ==
    /\ last.op = "getMessageDetails"
    /\ last.onProgress
    /\ Len(last.messageIds) = 6
    /\ last.failedIds = {2, 6}
    /\ Len(last.progress) = 2
    /\ last.progress[1].percentage = 83
    /\ Len(last.result) = 4

\* C28: a generateReport that is rejected as busy leaves analysisInProgress
\* true; the flag is true for as long as an invocation that passed the busy
\* check has not settled; and at no time are two invocations past the check
\* and not settled.
C28_OnePastTheCheck ==
    /\ [](/\ Len(pending) <= 1
          /\ pending # <<>> => analysisInProgress)
    /\ [][(last'.op = "generateReport" /\ last'.status = "rejected")
             => /\ analysisInProgress
                /\ analysisInProgress'
                /\ pending' = pending
                /\ Len(pending') = 1]_vars

\* a call rejected while another, on fewer emails, is in flight
C28_Witness ==
    /\ last.op = "generateReport"
    /\ last.status = "rejected"
    /\ analysisInProgress
    /\ Len(pending) = 1
    /\ Len(last.emails) > Len(pending[1].emails)

\* C30: at most one startAnalysis is past its guard and not over, and
\* isAnalyzing is true exactly while one is; a startAnalysis or refreshData
\* called while isAnalyzing is true changes nothing, neither the Dashboard nor
\* the analyzer and its cache; and the analyzer never rejects a generateReport
\* of the Dashboard as busy, nor has two pending.
C30_OneAnalysis ==
    /\ [](/\ Len(dashboard.runs) <= 1
          /\ dashboard.isAnalyzing <=> dashboard.runs # <<>>
          /\ pending # <<>> =>
                /\ Len(pending) = 1
                /\ Len(dashboard.runs) = 1
                /\ dashboard.runs[1].pc = "report"
          /\ last.op = "generateReport" => last.status # "rejected")
    /\ [][(/\ dashboard.isAnalyzing
           /\ last' # last
           /\ last'.op \in {"startAnalysis", "refreshData"}
           /\ last'.status \in {"ignored", "started"})
          => /\ last'.status = "ignored"
             /\ UNCHANGED <<dashboard, analysisCache, analysisInProgress,
                            pending, gmailAuth, gmailAPI>>]_vars

\* refreshData called and ignored while the one analysis under way waits for
\* its report
C30_Witness ==
    /\ last.op = "refreshData"
    /\ last.status = "ignored"
    /\ dashboard.isAnalyzing
    /\ Len(dashboard.runs) = 1
    /\ dashboard.runs[1].pc = "report"
    /\ pending # <<>>

====
